---- MODULE Spec2Model ----
(***************************************************************************)
(* The fallback orchestrator of backend/mcp_server.py                      *)
(* (RobustRecipeMCPServer): the provider health table, recipe search with  *)
(* fallback, nutrition lookup with fallback, the nutrition merge, the      *)
(* ingredient-keyword estimator and the static fallback recipes; its      *)
(* nutrition analysis and health score (analyze_nutrition); and the        *)
(* conversation graph of backend/llm_graph.py (route, search, generate)    *)
(* as the compiled StateGraph runs it, superstep by superstep.             *)
(*                                                                         *)
(* Spec is the orchestrator, SpecPure the functions that read no state,    *)
(* SpecAnalysis the nutrition analysis, SpecPipeline the conversation      *)
(* graph, SpecChat the endpoints /api/sessions, /api/chat and              *)
(* /api/chat/stream of backend/app.py, SpecWorkers the orchestrator under  *)
(* requests served side by side, SpecCache the search cache of             *)
(* backend/recipes.py; each leaves the variables of the others at their    *)
(* initial value.                                                          *)
(*                                                                         *)
(* Python strings are TLA+ strings (TLC evaluates Len, \o and SubSeq on    *)
(* them), lists are sequences, dicts are records or functions.             *)
(***************************************************************************)
EXTENDS Integers, Sequences, FiniteSets, TLC

\* ------------------------------------------------------------- bounds
\* time.time() readings range over 0..MaxClock
MaxClock == 1
\* a provider that is never tripped stops being failed at this count
MaxFailures == 3
\* the result caps tried are -1..MaxResults
MaxResults == 1
\* an external recipe provider answers with 0..MaxRecords records
MaxRecords == 1
\* the nutrient values merged range over 0..MaxValue
MaxValue == 2
\* the ingredient lists estimated have up to MaxIngredients ingredients
MaxIngredients == 2
\* the servings counts of the recipes analysed range over 0..MaxServings
MaxServings == 2
\* a web search answers with up to MaxHits items
MaxHits == 6
\* the messages tables a turn starts from hold 0..MaxStored messages
MaxStored == 13
\* the messages table holds up to MaxMessages messages
MaxMessages == 4
\* at most MaxWorkers invocations of the orchestrator run side by side
MaxWorkers == 4
\* the recipe_cache table holds up to MaxCacheRows rows
MaxCacheRows == 4

VARIABLES
    api_health,  \* self.api_health: provider -> {available, last_success, failures}
    now,         \* the latest reading of time.time()
    env,         \* the credentials found in the environment at start-up
    last,        \* the orchestrator invocation that has just returned: its
                 \* inputs, the health table it started from, what each
                 \* provider method did, its result (op = "none" once the
                 \* caller is done with it)
    pure,        \* one call of a function that reads no state
                 \* (merge_nutrition_data, estimate_nutrition): its
                 \* arguments and, once it has returned, its result
    analysis,    \* the latest call of analyze_nutrition: the recipe, the
                 \* health table it started from, what it returned
    turn,        \* one run of the conversation graph of llm_graph.py: the
                 \* graph state, the nodes due, what ran so far
    db,          \* the messages table: one record per stored message, in
                 \* created_at order
    stream,      \* the response of /api/chat/stream under way: what the
                 \* generator has yielded
    workers,     \* the invocations of the orchestrator that run side by side
                 \* on the one instance mcp_server, each in the thread of
                 \* its request: where each one is, what it has read
    chat_sessions, \* the chat_sessions table: the ids /api/sessions created
    chat,        \* the request of /api/chat just answered: its inputs, what
                 \* it invoked, its status and reply
    recipe_cache, \* the recipe_cache table: its rows in created_at order
    tavily       \* the call of search_recipes_tavily just returned, and for
                 \* each effective query the items the provider gave when
                 \* they were stored

vars == <<api_health, now, env, last, pure, analysis, turn, db, stream, workers, chat_sessions, chat, recipe_cache, tavily>>

\* ------------------------------------------------------------- Python helpers
Min(a, b) == IF a <= b THEN a ELSE b
Max(a, b) == IF a >= b THEN a ELSE b

\* s[:k]
PySlice(s, k) ==
    IF k >= 0 THEN SubSeq(s, 1, Min(k, Len(s)))
    ELSE SubSeq(s, 1, Max(Len(s) + k, 0))

\* w in s, for strings
Contains(s, w) ==
    \E i \in 1..(Len(s) - Len(w) + 1) : SubSeq(s, i, i + Len(w) - 1) = w

UpperChars == "ABCDEFGHIJKLMNOPQRSTUVWXYZ"
LowerChars == "abcdefghijklmnopqrstuvwxyz"

LowerChar(c) ==
    IF \E i \in 1..26 : SubSeq(UpperChars, i, i) = c
    THEN LET i == CHOOSE j \in 1..26 : SubSeq(UpperChars, j, j) = c
         IN SubSeq(LowerChars, i, i)
    ELSE c

\* s.lower()
RECURSIVE Lower(_)
Lower(s) ==
    IF Len(s) = 0 THEN s
    ELSE LowerChar(SubSeq(s, 1, 1)) \o Lower(SubSeq(s, 2, Len(s)))

\* any(word in s for word in words)
AnyWordIn(s, words) == \E i \in DOMAIN words : Contains(s, words[i])

\* the elements of a sequence
Range(s) == {s[i] : i \in DOMAIN s}

Reverse(s) == [i \in 1..Len(s) |-> s[Len(s) + 1 - i]]

\* ------------------------------------------------------------- inputs
\* the queries and the ingredient lists the callers pass
Queries == {"Chicken SOUP", "quick dinner"}

IngredientLists ==
    {<<>>, <<"Chicken Breast", "rice">>, <<"olive oil", "lettuce", "salt">>}

\* the ingredients estimate_nutrition is tried on: one for each bucket, one
\* for no bucket, and two that hold keywords of two buckets
Ingredients ==
    {"Chicken Breast", "rice", "olive oil", "Kale", "lettuce", "salt",
     "Black Beans", "spinach and tomato"}

EstimateInputs == UNION {[1..k -> Ingredients] : k \in 0..MaxIngredients}

\* ------------------------------------------------------------- providers
Providers == {"themealdb", "usda", "fatsecret", "spoonacular"}

\* api_priority of search_recipes_with_fallback
api_priority == <<"themealdb", "spoonacular">>

\* nutrition_apis of get_nutrition_with_fallback
nutrition_apis == <<"usda", "fatsecret">>

\* the 'source' field each search provider writes into its records
SourceOf(p) == IF p = "themealdb" THEN "TheMealDB" ELSE "Spoonacular"

\* ------------------------------------------------------------- health table
InitHealth(t) == [p \in Providers |->
                    [available |-> TRUE, last_success |-> t, failures |-> 0]]

\* if not self.api_health[api_name]['available']
IsAvailable_AlwaysCall(h) == TRUE

IsAvailable(h) == h.available

\* a success: last_success = time.time(); failures = 0
RecordSuccess(h, t) == [h EXCEPT !.last_success = t, !.failures = 0]

\* the except branch of the search loop: failures += 1, unavailable at 3
RecordSearchFailure_TripAtTwo(h) ==
    LET f == h.failures + 1
    IN  [h EXCEPT !.failures = f,
                  !.available = IF f >= 2 THEN FALSE ELSE @]

RecordSearchFailure(h) ==
    LET f == h.failures + 1
    IN  [h EXCEPT !.failures = f,
                  !.available = IF f >= 3 THEN FALSE ELSE @]

\* the except branch of the nutrition loop: failures += 1 and nothing else
RecordNutritionFailure(h) == [h EXCEPT !.failures = @ + 1]

\* ------------------------------------------------------------- static fallback table
\* fallback_recipes of get_fallback_recipes, in the dict's insertion order
fallback_recipes == <<
    [keyword |-> "chicken", title |-> "Simple Grilled Chicken",
     ingredients |-> <<"chicken breast", "olive oil", "salt", "pepper",
                       "garlic powder">>],
    [keyword |-> "salad", title |-> "Fresh Garden Salad",
     ingredients |-> <<"mixed greens", "cherry tomatoes", "cucumber",
                       "red onion", "olive oil", "balsamic vinegar",
                       "feta cheese">>],
    [keyword |-> "pasta", title |-> "Simple Pasta Aglio e Olio",
     ingredients |-> <<"spaghetti", "garlic", "olive oil",
                       "red pepper flakes", "parsley", "parmesan cheese">>],
    [keyword |-> "quinoa", title |-> "Mediterranean Quinoa Bowl",
     ingredients |-> <<"quinoa", "chickpeas", "feta cheese",
                       "cherry tomatoes", "cucumber", "red onion",
                       "olive oil", "lemon juice">>],
    [keyword |-> "soup", title |-> "Chicken Vegetable Soup",
     ingredients |-> <<"chicken breast", "carrots", "celery", "onion",
                       "chicken broth", "garlic", "thyme", "bay leaf">>] >>

\* a recipe record as the orchestrator handles it, before it is tagged
Recipe(title, source) == [title |-> title, source |-> source]

FallbackRecord(e) == Recipe(e.title, "Fallback Recipe")

\* keyword in query_lower or any(word in query_lower for word in ingredients)
FallbackMatches(e, query_lower) ==
    \/ Contains(query_lower, e.keyword)
    \/ AnyWordIn(query_lower, e.ingredients)

\* [recipe for ... if matches], in table order
RECURSIVE Matching(_, _)
Matching(query_lower, i) ==
    IF i > Len(fallback_recipes) THEN <<>>
    ELSE (IF FallbackMatches(fallback_recipes[i], query_lower)
          THEN <<FallbackRecord(fallback_recipes[i])>> ELSE <<>>)
         \o Matching(query_lower, i + 1)

\* `matching` for each query passed (evaluated once per query)
matching_of == [query \in Queries |-> Matching(Lower(query), 1)]

\* get_fallback_recipes without the default of its last line
get_fallback_recipes_NoDefault(query, max_results) ==
    PySlice(matching_of[query], max_results)

get_fallback_recipes(query, max_results) ==
    LET matching == matching_of[query]
    IN  IF matching # <<>> THEN PySlice(matching, max_results)
        ELSE <<FallbackRecord(fallback_recipes[1])>>

\* ------------------------------------------------------------- search providers
\* What the remote service answers: a transport fault / non-200 status
\* ("error"), or a 200 with n records.
SearchResponses ==
    {[kind |-> "error", n |-> 0]} \cup
    {[kind |-> "ok", n |-> k] : k \in 0..MaxRecords}

\* the records an answer of n records is turned into
ProviderRecords(p, n) ==
    [i \in 1..n |-> Recipe(p \o "-" \o ToString(i), SourceOf(p))]

\* what a provider method does when called: raise, or return a value
Raise == [kind |-> "raised", value |-> <<>>]
Return(v) == [kind |-> "returned", value |-> v]

\* a provider method that was not called
NotCalled == [kind |-> "none", value |-> <<>>]

\* search_recipes_themealdb: data['meals'][:max_results] of a 200, else raise
search_recipes_themealdb(resp, max_results) ==
    IF resp.kind = "ok"
    THEN Return(PySlice(ProviderRecords("themealdb", resp.n), max_results))
    ELSE Raise

\* search_recipes_spoonacular: raises without an API key, raises on a
\* fault, else one record per item of data['results']
search_recipes_spoonacular(resp, max_results, has_key) ==
    IF ~has_key THEN Raise
    ELSE IF resp.kind = "ok"
    THEN Return(ProviderRecords("spoonacular", resp.n))
    ELSE Raise

\* getattr(self, method_name)(query, max_results)
SearchMethod(api_name, resp, max_results, e) ==
    IF api_name = "themealdb"
    THEN search_recipes_themealdb(resp, max_results)
    ELSE search_recipes_spoonacular(resp, max_results, e.spoonacular_key)

\* ------------------------------------------------------------- recipe search
\* The loop state of search_recipes_with_fallback: the health table, the
\* locals recipes and sources_tried, whether the loop has hit its break,
\* and what each provider method did (for the record of the invocation).
SearchStart(health) ==
    [health |-> health, recipes |-> <<>>, sources_tried |-> <<>>,
     done |-> FALSE,
     outcome |-> [p \in Range(api_priority) |-> NotCalled]]

\* the provider is marked unavailable: one provenance entry, continue
SkipUnavailable_CountsFailure(st, api_name) ==
    [st EXCEPT !.sources_tried = Append(@, api_name \o "(unavailable)"),
               !.health[api_name] = RecordSearchFailure(@)]

SkipUnavailable(st, api_name) ==
    [st EXCEPT !.sources_tried = Append(@, api_name \o "(unavailable)")]

\* the method returned a non-empty list: extend, record the success, break
OnSearchSuccess_NoBreak(st, api_name, api_recipes, t) ==
    [st EXCEPT !.sources_tried = Append(@, api_name),
               !.recipes = @ \o api_recipes,
               !.health[api_name] = RecordSuccess(@, t)]

OnSearchSuccess(st, api_name, api_recipes, t) ==
    [st EXCEPT !.sources_tried = Append(@, api_name),
               !.recipes = @ \o api_recipes,
               !.health[api_name] = RecordSuccess(@, t),
               !.done = TRUE]

\* the method returned an empty list: a warning is logged, nothing else
OnSearchEmpty_CountsFailure(st, api_name) ==
    [st EXCEPT !.sources_tried = Append(@, api_name),
               !.health[api_name] = RecordSearchFailure(@)]

OnSearchEmpty(st, api_name) ==
    [st EXCEPT !.sources_tried = Append(@, api_name)]

\* the method raised: the failure is recorded
OnSearchException_TwoEntries(st, api_name) ==
    [st EXCEPT !.health[api_name] = RecordSearchFailure(@),
               !.sources_tried = @ \o <<api_name, api_name \o "(failed)">>]

OnSearchException(st, api_name) ==
    [st EXCEPT !.health[api_name] = RecordSearchFailure(@),
               !.sources_tried = Append(@, api_name \o "(failed)")]

\* one iteration of `for api_name, method_name in api_priority`
SearchStep(st, api_name, resp, max_results, e, t) ==
    IF st.done THEN st
    ELSE IF ~IsAvailable(st.health[api_name]) THEN SkipUnavailable(st, api_name)
    ELSE LET out == SearchMethod(api_name, resp, max_results, e)
             st1 == [st EXCEPT !.outcome[api_name] = out]
         IN  IF out.kind = "raised" THEN OnSearchException(st1, api_name)
             ELSE IF out.value # <<>>
                  THEN OnSearchSuccess(st1, api_name, out.value, t)
                  ELSE OnSearchEmpty(st1, api_name)

\* a loop that calls a provider again when its call has raised
RECURSIVE SearchLoop_CallsAgain(_, _, _, _, _, _)
SearchLoop_CallsAgain(st, i, resps, max_results, e, t) ==
    IF i > Len(api_priority) THEN st
    ELSE LET api_name == api_priority[i]
             st1 == SearchStep(st, api_name, resps[api_name], max_results,
                               e, t)
             st2 == IF st1.outcome[api_name].kind = "raised"
                    THEN SearchStep(st1, api_name, resps[api_name],
                                    max_results, e, t)
                    ELSE st1
         IN  SearchLoop_CallsAgain(st2, i + 1, resps, max_results, e, t)

\* the whole loop, from the i-th provider on
RECURSIVE SearchLoop(_, _, _, _, _, _)
SearchLoop(st, i, resps, max_results, e, t) ==
    IF i > Len(api_priority) THEN st
    ELSE SearchLoop(SearchStep(st, api_priority[i], resps[api_priority[i]],
                               max_results, e, t),
                    i + 1, resps, max_results, e, t)

\* recipe['_sources_tried'] = ...; recipe['_fallback_used'] = len(...) > 1
Tagged(recipes, sources_tried) ==
    [i \in DOMAIN recipes |->
        [title |-> recipes[i].title, source |-> recipes[i].source,
         sources_tried |-> sources_tried,
         fallback_used |-> Len(sources_tried) > 1]]

\* `if not recipes:` and what follows it, to the return
SearchFinish(st, query, max_results) ==
    LET fb == st.recipes = <<>>
        recipes == IF fb THEN get_fallback_recipes(query, max_results)
                   ELSE st.recipes
        tried == IF fb THEN Append(st.sources_tried, "fallback")
                 ELSE st.sources_tried
    IN  [health |-> st.health, outcome |-> st.outcome,
         sources_tried |-> tried,
         result |-> PySlice(Tagged(recipes, tried), max_results)]

\* search_recipes_with_fallback(query, diet, max_results) on a health table
search_recipes_with_fallback(health, query, max_results, resps, e, t) ==
    SearchFinish(SearchLoop(SearchStart(health), 1, resps, max_results, e, t),
                 query, max_results)

\* ------------------------------------------------------------- nutrition records
Nutrients == <<"calories", "protein", "carbs", "fat", "fiber">>

Nutrition(cal, pro, carb, fat, fib) ==
    [calories |-> cal, protein |-> pro, carbs |-> carb, fat |-> fat,
     fiber |-> fib]

ZeroNutrition == Nutrition(0, 0, 0, 0, 0)

\* any(d.values())
AnyValue(d) == \E k \in DOMAIN d : d[k] # 0

\* a merge whose inner loop stops before the last nutrient
RECURSIVE MergeOne_SkipsFiber(_, _, _)
MergeOne_SkipsFiber(merged, data, k) ==
    IF k > Len(Nutrients) - 1 THEN merged
    ELSE LET n == Nutrients[k]
         IN  MergeOne_SkipsFiber(IF data[n] > merged[n]
                                 THEN [merged EXCEPT ![n] = data[n]]
                                 ELSE merged,
                                 data, k + 1)

\* merge_nutrition_data: the inner loops over one source's data
RECURSIVE MergeOne(_, _, _)
MergeOne(merged, data, k) ==
    IF k > Len(Nutrients) THEN merged
    ELSE LET n == Nutrients[k]
         IN  MergeOne(IF data[n] > merged[n]
                      THEN [merged EXCEPT ![n] = data[n]] ELSE merged,
                      data, k + 1)

\* merge_nutrition_data: the outer loop over nutrition_results.items()
RECURSIVE MergeFrom(_, _, _)
MergeFrom(merged, nutrition_results, i) ==
    IF i > Len(nutrition_results) THEN merged
    ELSE MergeFrom(MergeOne(merged, nutrition_results[i].data, 1),
                   nutrition_results, i + 1)

\* a merge that reads the first source only
merge_nutrition_data_FirstOnly(nutrition_results) ==
    IF nutrition_results = <<>> THEN ZeroNutrition
    ELSE MergeOne(ZeroNutrition, nutrition_results[1].data, 1)

\* merge_nutrition_data(nutrition_results); the dict is the sequence of
\* its items [source, data] in insertion order
merge_nutrition_data(nutrition_results) ==
    IF nutrition_results = <<>> THEN ZeroNutrition
    ELSE MergeFrom(ZeroNutrition, nutrition_results, 1)

\* ------------------------------------------------------------- estimator
\* estimations of estimate_nutrition
estimations ==
    [protein |-> <<"chicken", "beef", "fish", "egg", "tofu", "beans",
                   "protein", "turkey", "pork">>,
     high_carb |-> <<"rice", "pasta", "bread", "potato", "flour", "sugar",
                     "noodles", "quinoa">>,
     high_fat |-> <<"oil", "butter", "cheese", "avocado", "nuts",
                    "mayonnaise", "cream">>,
     high_fiber |-> <<"vegetables", "fruits", "whole grain", "beans",
                      "broccoli", "spinach", "kale">>,
     low_cal |-> <<"lettuce", "cucumber", "tomato", "celery", "broth",
                   "water", "tea">>]

\* the if/elif chain of estimate_nutrition: the bucket whose branch an
\* ingredient takes
Bucket(ingredient_lower) ==
    IF AnyWordIn(ingredient_lower, estimations.protein) THEN "protein"
    ELSE IF AnyWordIn(ingredient_lower, estimations.high_carb)
    THEN "high_carb"
    ELSE IF AnyWordIn(ingredient_lower, estimations.high_fat) THEN "high_fat"
    ELSE IF AnyWordIn(ingredient_lower, estimations.low_cal) THEN "low_cal"
    ELSE IF AnyWordIn(ingredient_lower, estimations.high_fiber)
    THEN "high_fiber"
    ELSE "default"

\* the branch of each ingredient passed (evaluated once per ingredient)
bucket_of ==
    [ingredient \in Ingredients \cup UNION {Range(l) : l \in IngredientLists}
        |-> Bucket(Lower(ingredient))]

\* an estimator whose default branch adds no calories
EstimateOne_FreeDefault(estimated, ingredient) ==
    LET b == bucket_of[ingredient]
    IN  IF b = "protein"
        THEN [estimated EXCEPT !.calories = @ + 100, !.protein = @ + 15]
        ELSE IF b = "high_carb"
        THEN [estimated EXCEPT !.calories = @ + 150, !.carbs = @ + 30]
        ELSE IF b = "high_fat"
        THEN [estimated EXCEPT !.calories = @ + 120, !.fat = @ + 12]
        ELSE IF b = "low_cal"
        THEN [estimated EXCEPT !.calories = @ + 25, !.fiber = @ + 3]
        ELSE IF b = "high_fiber"
        THEN [estimated EXCEPT !.calories = @ + 50, !.fiber = @ + 8]
        ELSE [estimated EXCEPT !.carbs = @ + 15]

\* what the branch taken adds to the estimate
EstimateOne(estimated, ingredient) ==
    LET b == bucket_of[ingredient]
    IN  IF b = "protein"
        THEN [estimated EXCEPT !.calories = @ + 100, !.protein = @ + 15]
        ELSE IF b = "high_carb"
        THEN [estimated EXCEPT !.calories = @ + 150, !.carbs = @ + 30]
        ELSE IF b = "high_fat"
        THEN [estimated EXCEPT !.calories = @ + 120, !.fat = @ + 12]
        ELSE IF b = "low_cal"
        THEN [estimated EXCEPT !.calories = @ + 25, !.fiber = @ + 3]
        ELSE IF b = "high_fiber"
        THEN [estimated EXCEPT !.calories = @ + 50, !.fiber = @ + 8]
        ELSE [estimated EXCEPT !.calories = @ + 75, !.carbs = @ + 15]

RECURSIVE EstimateFrom(_, _, _)
EstimateFrom(estimated, ingredients, i) ==
    IF i > Len(ingredients) THEN estimated
    ELSE EstimateFrom(EstimateOne(estimated, ingredients[i]), ingredients,
                      i + 1)

\* estimate_nutrition(ingredients)
estimate_nutrition(ingredients) == EstimateFrom(ZeroNutrition, ingredients, 1)

\* ------------------------------------------------------------- nutrition providers
\* What the USDA lookups of one call come to: a transport fault ("error"),
\* or the nutrient totals accumulated over the answers (all zero when
\* every answer was a non-200 status or named no food).
UsdaData ==
    {ZeroNutrition, Nutrition(52, 0, 0, 0, 0), Nutrition(165, 31, 0, 4, 2)}

UsdaResponses ==
    {[kind |-> "error", data |-> ZeroNutrition]} \cup
    {[kind |-> "ok", data |-> d] : d \in UsdaData}

NotCalledN == [kind |-> "none", value |-> ZeroNutrition]
RaiseN == [kind |-> "raised", value |-> ZeroNutrition]
ReturnN(v) == [kind |-> "returned", value |-> v]

\* get_nutrition_usda: one request per ingredient of ingredients[:3]; with
\* no ingredient there is no request, hence no fault
get_nutrition_usda(ingredients, resp) ==
    IF ingredients = <<>> THEN ReturnN(ZeroNutrition)
    ELSE IF resp.kind = "ok" THEN ReturnN(resp.data)
    ELSE RaiseN

\* get_nutrition_fatsecret: zeros without credentials, and zeros with
\* them (the demo body makes no request)
get_nutrition_fatsecret(ingredients, has_creds) ==
    IF ~has_creds THEN ReturnN(ZeroNutrition)
    ELSE ReturnN(ZeroNutrition)

NutritionMethod(api_name, ingredients, resp, e) ==
    IF api_name = "usda" THEN get_nutrition_usda(ingredients, resp)
    ELSE get_nutrition_fatsecret(ingredients, e.fatsecret_creds)

\* ------------------------------------------------------------- nutrition lookup
\* The loop state of get_nutrition_with_fallback.
NutritionStart(health) ==
    [health |-> health, nutrition_results |-> <<>>, sources_tried |-> <<>>,
     done |-> FALSE,
     outcome |-> [p \in Range(nutrition_apis) |-> NotCalledN]]

SkipUnavailableN(st, api_name) ==
    [st EXCEPT !.sources_tried = Append(@, api_name \o "(unavailable)")]

\* a loop that keeps the data and goes on to the next provider
OnNutritionData_NoBreak(st, api_name, result, t) ==
    [st EXCEPT !.sources_tried = Append(@, api_name),
               !.nutrition_results =
                   Append(@, [source |-> api_name, data |-> result]),
               !.health[api_name] = RecordSuccess(@, t)]

\* any(result.values()): keep the data, record the success, break
OnNutritionData(st, api_name, result, t) ==
    [st EXCEPT !.sources_tried = Append(@, api_name),
               !.nutrition_results =
                   Append(@, [source |-> api_name, data |-> result]),
               !.health[api_name] = RecordSuccess(@, t),
               !.done = TRUE]

\* an all-zero result: only the provenance entry
OnNutritionZero(st, api_name) ==
    [st EXCEPT !.sources_tried = Append(@, api_name)]

OnNutritionException(st, api_name) ==
    [st EXCEPT !.health[api_name] = RecordNutritionFailure(@),
               !.sources_tried = Append(@, api_name \o "(failed)")]

\* one iteration of `for api_name, method_name in nutrition_apis`
NutritionStep(st, api_name, ingredients, resp, e, t) ==
    IF st.done THEN st
    ELSE IF ~IsAvailable(st.health[api_name])
    THEN SkipUnavailableN(st, api_name)
    ELSE LET out == NutritionMethod(api_name, ingredients, resp, e)
             st1 == [st EXCEPT !.outcome[api_name] = out]
         IN  IF out.kind = "raised" THEN OnNutritionException(st1, api_name)
             ELSE IF AnyValue(out.value)
                  THEN OnNutritionData(st1, api_name, out.value, t)
                  ELSE OnNutritionZero(st1, api_name)

RECURSIVE NutritionLoop(_, _, _, _, _, _)
NutritionLoop(st, i, ingredients, resp, e, t) ==
    IF i > Len(nutrition_apis) THEN st
    ELSE NutritionLoop(NutritionStep(st, nutrition_apis[i], ingredients,
                                     resp, e, t),
                       i + 1, ingredients, resp, e, t)

\* `if not any(final_nutrition.values())`
NeedsEstimate_Never(final_nutrition) == FALSE

NeedsEstimate(final_nutrition) == ~AnyValue(final_nutrition)

\* the merge and what follows it, to the return
NutritionFinish(st, ingredients) ==
    LET merged == merge_nutrition_data(st.nutrition_results)
        est == NeedsEstimate(merged)
    IN  [health |-> st.health, outcome |-> st.outcome,
         sources_tried |-> IF est THEN Append(st.sources_tried, "estimated")
                           ELSE st.sources_tried,
         result |-> IF est THEN estimate_nutrition(ingredients) ELSE merged]

\* get_nutrition_with_fallback(ingredients) on a health table
get_nutrition_with_fallback(health, ingredients, resp, e, t) ==
    NutritionFinish(NutritionLoop(NutritionStart(health), 1, ingredients,
                                  resp, e, t),
                    ingredients)

\* ------------------------------------------------------------- the state machine
\* the result caps the callers pass
ResultCaps == (-1)..MaxResults

\* time.time() in an invocation: later than in the one before it (the
\* readings stop at MaxClock)
Reading == Min(now + 1, MaxClock)

NoSearchOutcome == [p \in Range(api_priority) |-> NotCalled]
NoNutritionOutcome == [p \in Range(nutrition_apis) |-> NotCalledN]

\* the providers whose method the latest invocation called
Called ==
    {p \in Range(api_priority) : last.search_outcome[p].kind # "none"} \cup
    {p \in Range(nutrition_apis) : last.nutrition_outcome[p].kind # "none"}

NoInvocation ==
    [op |-> "none", query |-> "", max_results |-> 0, ingredients |-> <<>>,
     pre |-> InitHealth(0), search_outcome |-> NoSearchOutcome,
     nutrition_outcome |-> NoNutritionOutcome, sources_tried |-> <<>>,
     recipes |-> <<>>, nutrition |-> ZeroNutrition]

\* no call of a state-free function is under way
NoCall ==
    [fn |-> "none", nutrition_results |-> <<>>, ingredients |-> <<>>,
     returned |-> FALSE, result |-> ZeroNutrition]

\* analyze_nutrition has not been called
NoAnalysis == [op |-> "none"]

\* no run of the conversation graph is under way
NoTurn == [pc |-> "idle"]
NoStream == [pc |-> "idle"]
NoChat == [pc |-> "idle"]
\* the effective queries of the web searches: the query, and the dietary
\* context after it when there is one
SearchTexts == {"soup", "salad"}
DietaryContexts == {"", "vegan"}
EffectiveQuery(query, dietary_context) ==
    IF dietary_context # "" THEN query \o " " \o dietary_context ELSE query
EffectiveQueries ==
    {EffectiveQuery(q, c) : q \in SearchTexts, c \in DietaryContexts}
NoLookup ==
    [pc |-> "idle", original |-> [q \in EffectiveQueries |-> <<>>]]
Workers == 1..MaxWorkers
NoWorker == [pc |-> "idle", api_name |-> "none", failures |-> 0]
NoWorkers == [w \in Workers |-> NoWorker]

\* RobustRecipeMCPServer(): every provider available, no failure yet; the
\* credentials are whatever the environment holds
Init ==
    /\ now = 0
    /\ api_health = InitHealth(0)
    /\ env \in [spoonacular_key : BOOLEAN, fatsecret_creds : BOOLEAN]
    /\ last = NoInvocation
    /\ pure = NoCall
    /\ analysis = NoAnalysis
    /\ turn = NoTurn
    /\ db = <<>>
    /\ stream = NoStream
    /\ workers = NoWorkers
    /\ chat_sessions = {}
    /\ chat = NoChat
    /\ recipe_cache = <<>>
    /\ tavily = NoLookup

\* one call of search_recipes_with_fallback, start to return
Search ==
    \E query \in Queries, max_results \in ResultCaps,
       resps \in [Range(api_priority) -> SearchResponses] :
        LET t == Reading
            r == search_recipes_with_fallback(api_health, query, max_results,
                                              resps, env, t)
        IN  /\ last.op = "none"
            /\ api_health' = r.health
            /\ now' = t
            /\ last' = [op |-> "search", query |-> query,
                        max_results |-> max_results, ingredients |-> <<>>,
                        pre |-> api_health,
                        search_outcome |-> r.outcome,
                        nutrition_outcome |-> NoNutritionOutcome,
                        sources_tried |-> r.sources_tried,
                        recipes |-> r.result,
                        nutrition |-> ZeroNutrition]
            /\ UNCHANGED <<env, pure, analysis, turn, db, stream, workers, chat_sessions, chat, recipe_cache, tavily>>

\* one call of get_nutrition_with_fallback, start to return
GetNutrition ==
    \E ingredients \in IngredientLists, resp \in UsdaResponses :
        LET t == Reading
            r == get_nutrition_with_fallback(api_health, ingredients, resp,
                                             env, t)
        IN  /\ last.op = "none"
            /\ \A p \in Providers : r.health[p].failures <= MaxFailures
            /\ api_health' = r.health
            /\ now' = t
            /\ last' = [op |-> "nutrition", query |-> "", max_results |-> 0,
                        ingredients |-> ingredients, pre |-> api_health,
                        search_outcome |-> NoSearchOutcome,
                        nutrition_outcome |-> r.outcome,
                        sources_tried |-> r.sources_tried,
                        recipes |-> <<>>,
                        nutrition |-> r.result]
            /\ UNCHANGED <<env, pure, analysis, turn, db, stream, workers, chat_sessions, chat, recipe_cache, tavily>>

\* the caller is done with the returned value; the orchestrator runs one
\* invocation at a time
Done ==
    /\ last.op # "none"
    /\ last' = NoInvocation
    /\ UNCHANGED <<api_health, now, env, pure, analysis, turn, db, stream, workers, chat_sessions, chat, recipe_cache, tavily>>

Next == Search \/ GetNutrition \/ Done

Spec == Init /\ [][Next]_vars

\* ------------------------------------------------------------- reading an invocation
SearchProviders == Range(api_priority)
NutritionProviders == Range(nutrition_apis)

\* the priority list of the invocation that has just returned
LastPriority == IF last.op = "search" THEN api_priority ELSE nutrition_apis

\* what provider p's method did in that invocation
LastOutcome(p) ==
    IF p \in SearchProviders THEN last.search_outcome[p]
    ELSE last.nutrition_outcome[p]

\* p answered with usable data: a non-empty list, a non-zero record
Succeeded(p) ==
    /\ LastOutcome(p).kind = "returned"
    /\ IF p \in SearchProviders THEN LastOutcome(p).value # <<>>
       ELSE AnyValue(LastOutcome(p).value)

\* the place of p in the priority list
Pos(p) == CHOOSE i \in DOMAIN LastPriority : LastPriority[i] = p

\* the loop got as far as p: no provider before it succeeded
Reached(p) == \A i \in 1..(Pos(p) - 1) : ~Succeeded(LastPriority[i])

\* the provenance entries that speak of p
EntriesOf(p) == {p, p \o "(failed)", p \o "(unavailable)"}

\* the places of sources_tried that speak of p
PlacesOf(p) ==
    {i \in DOMAIN last.sources_tried : last.sources_tried[i] \in EntriesOf(p)}

\* the loop went on after p: the next provider, if any, has its entry
WentOnAfter(p) ==
    Pos(p) < Len(LastPriority) => PlacesOf(LastPriority[Pos(p) + 1]) # {}

\* ------------------------------------------------------------- C1
\* C1 (as claimed): every provider of the health table, search or
\* nutrition, is unavailable once it has 3 consecutive recorded failures.
C1_TrippedAfterThreeFailures ==
    \A p \in Providers :
        api_health[p].failures >= 3 => ~api_health[p].available

\* ------------------------------------------------------------- C2
\* C2: once a provider's available flag is false it stays false through
\* every later invocation, and no later invocation calls the provider.
C2_NoRecovery ==
    [][\A p \in Providers :
          ~api_health[p].available =>
              /\ ~api_health'[p].available
              /\ p \notin Called']_vars

\* an invocation that started with a tripped provider has returned
C2_Witness ==
    /\ last.op = "search"
    /\ \E p \in SearchProviders : ~last.pre[p].available

\* ------------------------------------------------------------- C3
\* C3: in every reachable state, a provider that is unavailable has at
\* least 3 recorded failures.
C3_UnavailableOnlyAfterThree ==
    \A p \in Providers :
        ~api_health[p].available => api_health[p].failures >= 3

C3_Witness == \E p \in Providers : ~api_health[p].available

\* ------------------------------------------------------------- C4
\* C4: a provider that is unavailable when the loop reaches it is not
\* called; it gets exactly one provenance entry, "<provider>(unavailable)",
\* at its place in the list, the loop goes on with the next provider, and
\* the provider's health record is the one the invocation started from.
C4_SkipUnavailable ==
    last.op # "none" =>
        \A p \in Range(LastPriority) :
            (Reached(p) /\ ~last.pre[p].available) =>
                /\ p \notin Called
                /\ PlacesOf(p) = {Pos(p)}
                /\ last.sources_tried[Pos(p)] = p \o "(unavailable)"
                /\ WentOnAfter(p)
                /\ api_health[p] = last.pre[p]

\* the first search provider was skipped and the second one was called
C4_Witness ==
    /\ last.op = "search"
    /\ ~last.pre["themealdb"].available
    /\ "spoonacular" \in Called

\* ------------------------------------------------------------- C5
\* C5: when a search provider returns at least one record, its failure
\* count is 0 afterwards, "<provider>" is the last provenance entry, no
\* provider after it is called or mentioned, and every returned record is
\* one of that provider's.
C5_FirstSuccessWins ==
    last.op = "search" =>
        \A p \in SearchProviders :
            Succeeded(p) =>
                /\ api_health[p].failures = 0
                /\ last.sources_tried[Len(last.sources_tried)] = p
                /\ PlacesOf(p) = {Len(last.sources_tried)}
                /\ \A q \in SearchProviders :
                       Pos(q) > Pos(p) => q \notin Called /\ PlacesOf(q) = {}
                /\ \A i \in DOMAIN last.recipes :
                       /\ last.recipes[i].source = SourceOf(p)
                       /\ \E j \in DOMAIN LastOutcome(p).value :
                              LastOutcome(p).value[j].title =
                                  last.recipes[i].title

\* the second provider succeeded after failures of its own, records came back
C5_Witness ==
    /\ last.op = "search"
    /\ Succeeded("spoonacular")
    /\ last.pre["spoonacular"].failures > 0
    /\ "themealdb" \in Called
    /\ last.recipes # <<>>

\* ------------------------------------------------------------- C6
\* C6 (as claimed): a search provider that raises or returns an empty list
\* has its failure count increased by 1, and the loop goes on with the
\* next provider.
C6_FailureOnRaiseOrEmpty ==
    last.op = "search" =>
        \A p \in SearchProviders :
            (LastOutcome(p).kind # "none" /\ ~Succeeded(p)) =>
                /\ api_health[p].failures = last.pre[p].failures + 1
                /\ WentOnAfter(p)

\* C6 (amended): a search provider that raises has its failure count
\* increased by 1 and gets the entry "<provider>(failed)"; one that returns
\* an empty list keeps its health record as it was and gets the entry
\* "<provider>"; in both cases the loop goes on with the next provider.
C6_FailureOnRaiseOnly ==
    last.op = "search" =>
        \A p \in SearchProviders :
            /\ LastOutcome(p).kind = "raised" =>
                   /\ api_health[p].failures = last.pre[p].failures + 1
                   /\ last.sources_tried[Pos(p)] = p \o "(failed)"
                   /\ WentOnAfter(p)
            /\ (LastOutcome(p).kind = "returned" /\ ~Succeeded(p)) =>
                   /\ api_health[p] = last.pre[p]
                   /\ last.sources_tried[Pos(p)] = p
                   /\ WentOnAfter(p)

\* the first provider returned an empty list, the second one raised
C6_Witness ==
    /\ last.op = "search"
    /\ LastOutcome("themealdb").kind = "returned"
    /\ ~Succeeded("themealdb")
    /\ LastOutcome("spoonacular").kind = "raised"

\* ------------------------------------------------------------- C7
\* the titles of the static table
FallbackTitles == {fallback_recipes[i].title : i \in DOMAIN fallback_recipes}

\* no entry of the static table matches the query
nothing_matches ==
    [query \in Queries |->
        \A i \in DOMAIN fallback_recipes :
            ~FallbackMatches(fallback_recipes[i], Lower(query))]

\* C7: with a result cap of at least 1, when every search provider raised
\* or was skipped as unavailable, the search returns a non-empty list of
\* records of the static table, each with _fallback_used true; the list is
\* the default recipe alone when no table entry matches the query.
C7_FallbackExhaustion ==
    (/\ last.op = "search"
     /\ last.max_results >= 1
     /\ \A p \in SearchProviders : LastOutcome(p).kind \in {"raised", "none"})
    => /\ last.recipes # <<>>
       /\ \A i \in DOMAIN last.recipes :
              /\ last.recipes[i].source = "Fallback Recipe"
              /\ last.recipes[i].title \in FallbackTitles
              /\ last.recipes[i].fallback_used
       /\ nothing_matches[last.query] =>
              /\ Len(last.recipes) = 1
              /\ last.recipes[1].title = fallback_recipes[1].title

\* one provider skipped, the other raised, and no table entry matches
C7_Witness ==
    /\ last.op = "search"
    /\ last.max_results >= 1
    /\ LastOutcome("themealdb").kind = "none"
    /\ LastOutcome("spoonacular").kind = "raised"
    /\ nothing_matches[last.query]

\* ------------------------------------------------------------- C8
\* the number of providers the loop reached
NReached ==
    IF \E i \in DOMAIN LastPriority : Succeeded(LastPriority[i])
    THEN CHOOSE i \in DOMAIN LastPriority :
             /\ Succeeded(LastPriority[i])
             /\ \A j \in 1..(i - 1) : ~Succeeded(LastPriority[j])
    ELSE Len(LastPriority)

\* the entry a reached provider must have
EntryOf(p) ==
    IF ~last.pre[p].available THEN p \o "(unavailable)"
    ELSE IF LastOutcome(p).kind = "raised" THEN p \o "(failed)"
    ELSE p

\* the attempt list of the invocation, from what happened in it
AttemptList ==
    [i \in 1..NReached |-> EntryOf(LastPriority[i])]
    \o (IF \E p \in Range(LastPriority) : Succeeded(p) THEN <<>>
        ELSE <<"fallback">>)

\* C8: every record a search returns carries the attempt list of the
\* invocation: one entry per provider reached, in priority order
\* ("p", "p(failed)" or "p(unavailable)"), then "fallback" iff the record
\* is one of the static table; and _fallback_used is (entries > 1).
C8_ProvenanceComplete ==
    last.op = "search" =>
        \A i \in DOMAIN last.recipes :
            /\ last.recipes[i].sources_tried = AttemptList
            /\ last.recipes[i].fallback_used = (Len(AttemptList) > 1)
            /\ (last.recipes[i].source = "Fallback Recipe") <=>
                   (AttemptList[Len(AttemptList)] = "fallback")

\* records came back from the second provider after the first one raised
C8_Witness ==
    /\ last.op = "search"
    /\ last.recipes # <<>>
    /\ LastOutcome("themealdb").kind = "raised"
    /\ Succeeded("spoonacular")

\* ------------------------------------------------------------- C9
\* no nutrition provider gave usable data
NutritionExhausted == \A p \in NutritionProviders : ~Succeeded(p)

\* C9: when every nutrition provider raised, was skipped or returned an
\* all-zero record, the lookup returns the five values of
\* estimate_nutrition(ingredients) with "estimated" as the last provenance
\* entry; in every other case there is no "estimated" entry.
C9_NutritionExhaustion ==
    last.op = "nutrition" =>
        /\ NutritionExhausted =>
               /\ last.nutrition = estimate_nutrition(last.ingredients)
               /\ last.sources_tried # <<>>
               /\ last.sources_tried[Len(last.sources_tried)] = "estimated"
        /\ ~NutritionExhausted =>
               "estimated" \notin Range(last.sources_tried)

\* usda raised, fatsecret returned zeros, and the estimate is not all zero
C9_Witness ==
    /\ last.op = "nutrition"
    /\ LastOutcome("usda").kind = "raised"
    /\ LastOutcome("fatsecret").kind = "returned"
    /\ AnyValue(last.nutrition)

\* ------------------------------------------------------------- C10
\* C10 (as claimed): a provider whose credentials are missing is never
\* attempted, gets no "(failed)" entry and never has a failure recorded,
\* so it stays available.
C10_MissingCredentialsExcluded ==
    /\ ~env.spoonacular_key =>
           /\ "spoonacular" \notin Called
           /\ "spoonacular(failed)" \notin Range(last.sources_tried)
           /\ api_health["spoonacular"].failures = 0
           /\ api_health["spoonacular"].available
    /\ ~env.fatsecret_creds =>
           /\ "fatsecret" \notin Called
           /\ "fatsecret(failed)" \notin Range(last.sources_tried)
           /\ api_health["fatsecret"].failures = 0
           /\ api_health["fatsecret"].available

\* ------------------------------------------------------------- the state-free functions
\* the records merged: every nutrient is zero in some and positive in
\* others
MergeRecords ==
    {Nutrition(cal, pro, carb, fat, fib) :
        cal \in 0..MaxValue, pro \in 0..MaxValue, carb \in 0..MaxValue,
        fat \in {0, MaxValue}, fib \in {0, MaxValue}}

\* nutrition_results is keyed by the nutrition providers; its items come in
\* insertion order
SourceOrders ==
    {<<>>, <<"usda">>, <<"fatsecret">>, <<"usda", "fatsecret">>,
     <<"fatsecret", "usda">>}

\* the mapping whose keys come in order o and whose values are d
Mapping(o, d) == [i \in 1..Len(o) |-> [source |-> o[i], data |-> d[i]]]

\* the environment is the same in every call
InitServer ==
    /\ now = 0
    /\ api_health = InitHealth(0)
    /\ env = [spoonacular_key |-> FALSE, fatsecret_creds |-> FALSE]
    /\ last = NoInvocation

\* a caller is about to call merge_nutrition_data or estimate_nutrition
InitPure ==
    /\ InitServer
    /\ analysis = NoAnalysis
    /\ turn = NoTurn
    /\ db = <<>>
    /\ stream = NoStream
    /\ workers = NoWorkers
    /\ chat_sessions = {}
    /\ chat = NoChat
    /\ recipe_cache = <<>>
    /\ tavily = NoLookup
    /\ \/ \E o \in SourceOrders : \E d \in [1..Len(o) -> MergeRecords] :
              pure = [NoCall EXCEPT !.fn = "merge",
                                    !.nutrition_results = Mapping(o, d)]
       \/ \E ingredients \in EstimateInputs :
              pure = [NoCall EXCEPT !.fn = "estimate",
                                    !.ingredients = ingredients]

\* merge_nutrition_data(nutrition_results) returns
Merge ==
    /\ pure.fn = "merge"
    /\ ~pure.returned
    /\ pure' = [pure EXCEPT
                    !.returned = TRUE,
                    !.result = merge_nutrition_data(pure.nutrition_results)]
    /\ UNCHANGED <<api_health, now, env, last, analysis, turn, db, stream, workers, chat_sessions, chat, recipe_cache, tavily>>

\* estimate_nutrition(ingredients) returns
Estimate ==
    /\ pure.fn = "estimate"
    /\ ~pure.returned
    /\ pure' = [pure EXCEPT !.returned = TRUE,
                            !.result = estimate_nutrition(pure.ingredients)]
    /\ UNCHANGED <<api_health, now, env, last, analysis, turn, db, stream, workers, chat_sessions, chat, recipe_cache, tavily>>

NextPure == Merge \/ Estimate

SpecPure == InitPure /\ [][NextPure]_vars

Merged == pure.fn = "merge" /\ pure.returned
Estimated == pure.fn = "estimate" /\ pure.returned

\* ------------------------------------------------------------- analyze_nutrition
\* Python's true division: the quotient n / d (d # 0) as a fraction with a
\* positive denominator. Comparisons below are exact, where the code
\* compares floats.
Quotient(n, d) ==
    IF d < 0 THEN [num |-> 0 - n, den |-> 0 - d] ELSE [num |-> n, den |-> d]

Whole(n) == Quotient(n, 1)
Times(x, k) == [num |-> x.num * k, den |-> x.den]
Ratio(x, y) == Quotient(x.num * y.den, x.den * y.num)
Equal(x, y) == x.num * y.den = y.num * x.den
Less(x, y) == x.num * y.den < y.num * x.den
AtMost(x, y) == x.num * y.den <= y.num * x.den

\* the nutrients a recipe record may list under nutrition['nutrients']
NutrientEntry(name, amount) == [name |-> name, amount |-> amount]

NutrientLists ==
    {<<>>,
     <<NutrientEntry("Calories", 400), NutrientEntry("Protein", 30),
       NutrientEntry("Carbohydrates", 40), NutrientEntry("Fat", 12),
       NutrientEntry("Fiber", 6)>>,
     <<NutrientEntry("Calories", 1800), NutrientEntry("Protein", 10),
       NutrientEntry("Carbohydrates", 350), NutrientEntry("Fat", 60)>>,
     <<NutrientEntry("Calories", 700), NutrientEntry("Protein", 10),
       NutrientEntry("Carbohydrates", 100), NutrientEntry("Fat", 30)>>,
     <<NutrientEntry("Protein", 30)>>}

Categories == {"", "Dessert", "Chicken Soup"}

\* the recipe records analysed
RecipeDatas ==
    [nutrients : NutrientLists, servings : 0..MaxServings,
     ingredients : {<<>>, <<"Chicken Breast", "rice">>},
     category : Categories]

\* the if/elif chain over a nutrient's name: the field it fills
NutrientField(name) ==
    IF Contains(name, "Calories") THEN "calories_per_serving"
    ELSE IF Contains(name, "Protein") THEN "protein_per_serving"
    ELSE IF Contains(name, "Carbohydrates") THEN "carbs_per_serving"
    ELSE IF Contains(name, "Fat") THEN "fat_per_serving"
    ELSE "none"

nutrient_field_of ==
    [name \in UNION {{l[i].name : i \in 1..Len(l)} : l \in NutrientLists}
        |-> NutrientField(name)]

\* the analysis dict analyze_nutrition starts from
NewAnalysis ==
    [raised |-> FALSE,
     calories_per_serving |-> Whole(0), protein_per_serving |-> Whole(0),
     carbs_per_serving |-> Whole(0), fat_per_serving |-> Whole(0),
     health_score |-> 0, recommendations |-> <<>>]

\* the loop over nutrition['nutrients']: amount / servings raises
\* ZeroDivisionError when servings is 0
RECURSIVE ExtractNutrients(_, _, _, _)
ExtractNutrients(a, nutrients, servings, i) ==
    IF i > Len(nutrients) \/ a.raised THEN a
    ELSE LET field == nutrient_field_of[nutrients[i].name]
         IN  ExtractNutrients(
                 IF field = "none" THEN a
                 ELSE IF servings = 0 THEN [a EXCEPT !.raised = TRUE]
                 ELSE [a EXCEPT
                          ![field] = Quotient(nutrients[i].amount, servings)],
                 nutrients, servings, i + 1)

\* the per-serving values taken from get_nutrition_with_fallback
FromLookup(a, nutrition_data, servings) ==
    [a EXCEPT
        !.calories_per_serving =
            Quotient(nutrition_data.calories, Max(servings, 1)),
        !.protein_per_serving =
            Quotient(nutrition_data.protein, Max(servings, 1)),
        !.carbs_per_serving =
            Quotient(nutrition_data.carbs, Max(servings, 1)),
        !.fat_per_serving =
            Quotient(nutrition_data.fat, Max(servings, 1))]

\* the defaults of a recipe category
CategoryDefaults(category_lower) ==
    IF \/ Contains(category_lower, "dessert")
       \/ Contains(category_lower, "cake")
       \/ Contains(category_lower, "cookie")
    THEN [calories |-> 400, carbs |-> 60, fat |-> 20]
    ELSE IF \/ Contains(category_lower, "salad")
            \/ Contains(category_lower, "soup")
    THEN [calories |-> 250, carbs |-> 20, fat |-> 10]
    ELSE [calories |-> 350, carbs |-> 30, fat |-> 15]

category_defaults_of ==
    [category \in Categories |-> CategoryDefaults(Lower(category))]

FromCategory(a, category) ==
    [a EXCEPT
        !.calories_per_serving = Whole(category_defaults_of[category].calories),
        !.carbs_per_serving = Whole(category_defaults_of[category].carbs),
        !.fat_per_serving = Whole(category_defaults_of[category].fat)]

\* the share of the calories, in percent, that grams of a macronutrient
\* at cal_per_gram calories a gram make up
Percent(grams, cal_per_gram, total_calories) ==
    Times(Ratio(Times(grams, cal_per_gram), total_calories), 100)

\* a balance score that leaves the fat share out
BalanceScore_NoFat(a) ==
    LET protein_pct == Percent(a.protein_per_serving, 4,
                               a.calories_per_serving)
        carb_pct == Percent(a.carbs_per_serving, 4, a.calories_per_serving)
    IN  (IF AtMost(Whole(10), protein_pct) /\ AtMost(protein_pct, Whole(30))
         THEN 25 ELSE 0)
        + (IF AtMost(carb_pct, Whole(65)) THEN 25 ELSE 0)

\* Score based on balanced macros
BalanceScore(a) ==
    LET protein_pct == Percent(a.protein_per_serving, 4,
                               a.calories_per_serving)
        carb_pct == Percent(a.carbs_per_serving, 4, a.calories_per_serving)
        fat_pct == Percent(a.fat_per_serving, 9, a.calories_per_serving)
    IN  (IF AtMost(Whole(10), protein_pct) /\ AtMost(protein_pct, Whole(30))
         THEN 25 ELSE 0)
        + (IF AtMost(carb_pct, Whole(65)) THEN 25 ELSE 0)
        + (IF AtMost(fat_pct, Whole(35)) THEN 25 ELSE 0)

\* a calorie score that rewards the band twice
CalorieScore_Double(a) ==
    LET calories == a.calories_per_serving
    IN  IF AtMost(Whole(200), calories) /\ AtMost(calories, Whole(600))
        THEN 50
        ELSE IF Less(calories, Whole(200)) THEN 15
        ELSE IF Less(Whole(800), calories) THEN 10
        ELSE 20

\* Score based on calorie appropriateness
CalorieScore(a) ==
    LET calories == a.calories_per_serving
    IN  IF AtMost(Whole(200), calories) /\ AtMost(calories, Whole(600))
        THEN 25
        ELSE IF Less(calories, Whole(200)) THEN 15
        ELSE IF Less(Whole(800), calories) THEN 10
        ELSE 20

\* Generate recommendations
Recommendations(a, balance_score, calorie_score) ==
    <<IF balance_score >= 50 THEN "Well-balanced macronutrients!"
      ELSE "Consider balancing protein, carbs, and fat",
      IF calorie_score >= 20 THEN "Appropriate calorie content"
      ELSE IF Less(a.calories_per_serving, Whole(200))
      THEN "May need more calories for satiety"
      ELSE "High calorie meal - watch portions">>

\* Generate comprehensive health score: only when calories > 0
Scored(a) ==
    IF Less(Whole(0), a.calories_per_serving)
    THEN [a EXCEPT
             !.health_score = BalanceScore(a) + CalorieScore(a),
             !.recommendations =
                 Recommendations(a, BalanceScore(a), CalorieScore(a))]
    ELSE a

\* the call raised: nothing is returned
RaisedAnalysis == [NewAnalysis EXCEPT !.raised = TRUE]

\* a zero-calorie recipe is looked up whether it lists ingredients or not
LooksUp_Always(ingredients) == TRUE

\* if ingredients: the providers are asked
LooksUp(ingredients) == ingredients # <<>>

\* analyze_nutrition(recipe_data) on a health table: the table it leaves,
\* whether get_nutrition_with_fallback was called and what it gave, what
\* is returned
analyze_nutrition(health, recipe_data, resp, e, t) ==
    LET own == ExtractNutrients(NewAnalysis, recipe_data.nutrients,
                                recipe_data.servings, 1)
    IN  IF own.raised
        THEN [health |-> health, looked_up |-> FALSE,
              nutrition_data |-> ZeroNutrition, result |-> RaisedAnalysis]
        ELSE IF ~Equal(own.calories_per_serving, Whole(0))
        THEN [health |-> health, looked_up |-> FALSE,
              nutrition_data |-> ZeroNutrition, result |-> Scored(own)]
        ELSE IF LooksUp(recipe_data.ingredients)
        THEN LET r == get_nutrition_with_fallback(
                          health, recipe_data.ingredients, resp, e, t)
             IN  [health |-> r.health, looked_up |-> TRUE,
                  nutrition_data |-> r.result,
                  result |-> Scored(FromLookup(own, r.result,
                                               recipe_data.servings))]
        ELSE [health |-> health, looked_up |-> FALSE,
              nutrition_data |-> ZeroNutrition,
              result |-> Scored(FromCategory(own, recipe_data.category))]

\* what USDA may answer during an analysis: as in a lookup, or protein
\* without calories
AnalysisResponses ==
    UsdaResponses \cup {[kind |-> "ok", data |-> Nutrition(0, 5, 0, 0, 0)]}

InitAnalysis ==
    /\ InitServer
    /\ pure = NoCall
    /\ analysis = NoAnalysis
    /\ turn = NoTurn
    /\ db = <<>>
    /\ stream = NoStream
    /\ workers = NoWorkers
    /\ chat_sessions = {}
    /\ chat = NoChat
    /\ recipe_cache = <<>>
    /\ tavily = NoLookup

\* one call of analyze_nutrition, start to return
Analyze ==
    \E recipe_data \in RecipeDatas, resp \in AnalysisResponses :
        LET t == Reading
            r == analyze_nutrition(api_health, recipe_data, resp, env, t)
        IN  /\ analysis.op = "none"
            /\ \A p \in Providers : r.health[p].failures <= MaxFailures
            /\ api_health' = r.health
            /\ now' = IF r.looked_up THEN t ELSE now
            /\ analysis' = [op |-> "analyze", recipe_data |-> recipe_data,
                            pre |-> api_health, looked_up |-> r.looked_up,
                            nutrition_data |-> r.nutrition_data,
                            result |-> r.result]
            /\ UNCHANGED <<env, last, pure, turn, db, stream, workers, chat_sessions, chat, recipe_cache, tavily>>

\* the caller is done with the analysis
AnalysisDone ==
    /\ analysis.op # "none"
    /\ analysis' = NoAnalysis
    /\ UNCHANGED <<api_health, now, env, last, pure, turn, db, stream, workers, chat_sessions, chat, recipe_cache, tavily>>

NextAnalysis == Analyze \/ AnalysisDone

SpecAnalysis == InitAnalysis /\ [][NextAnalysis]_vars

Analysed == analysis.op = "analyze"
Returned == Analysed /\ ~analysis.result.raised

\* what the recipe's own nutrient list gives
OwnValues ==
    ExtractNutrients(NewAnalysis, analysis.recipe_data.nutrients,
                     analysis.recipe_data.servings, 1)

\* the calories the recipe's own nutrient list gives per serving are zero
\* (the list names no calories, or none at all)
OwnCaloriesZero ==
    Returned /\ Equal(OwnValues.calories_per_serving, Whole(0))

\* ------------------------------------------------------------- the conversation graph
Sessions == {"s1", "s2"}

\* a row of the messages table
Message(session_id, role, content) ==
    [session_id |-> session_id, role |-> role, content |-> content]

\* the i-th message stored: most are of session s1, every fifth of s2; the
\* user and the assistant take turns; some replies of the assistant are
\* empty
Stored(i) ==
    Message(IF i % 5 = 0 THEN "s2" ELSE "s1",
            IF i % 2 = 1 THEN "user" ELSE "assistant",
            IF i % 6 = 4 THEN "" ELSE "message " \o ToString(i))

\* the messages tables a turn starts from
MessageTables == {[i \in 1..n |-> Stored(i)] : n \in 0..MaxStored}

\* s[-k:]
LastOf(s, k) == SubSeq(s, Max(Len(s) - k, 0) + 1, Len(s))

\* the rows of a session in created_at order, and the last 10 of them as
\* run_graph hands them to the graph
SessionMessages(table, session_id) ==
    SelectSeq(table, LAMBDA m : m.session_id = session_id)

History(table, session_id) ==
    LET msgs == LastOf(SessionMessages(table, session_id), 10)
    IN  [i \in 1..Len(msgs) |->
            [role |-> msgs[i].role, content |-> msgs[i].content]]

\* the messages users send
UserQueries ==
    {"What's the latest trending recipe?", "How do I dice an onion?",
     "NEWS on keto", "Can I renew my meal plan", "Dinner ideas for 2025",
     ""}

trigger_words ==
    <<"latest", "recent", "news", "study", "research", "trending", "new",
      "202", "google", "web", "online", "search">>

\* a routing test that does not lower-case the query
NeedsSearch_CaseSensitive(query) == AnyWordIn(query, trigger_words)

\* any(w in q for w in trigger_words), q the lower-cased query
NeedsSearch(query) == AnyWordIn(Lower(query), trigger_words)

needs_search_of == [query \in UserQueries |-> NeedsSearch(query)]

\* _should_search(state)
should_search(state) ==
    [state EXCEPT
        !.needs_search = needs_search_of[state.query],
        !.route_taken = IF needs_search_of[state.query]
                        THEN "search" ELSE "generate"]

\* what search_recipes_tavily comes to: no client configured (an empty
\* list, no request), the cached items of the query (no request), the
\* items of a Tavily search, or the fault of one
Hit(i) ==
    [title |-> "Recipe " \o ToString(i),
     sourceUrl |-> "https://example.org/" \o ToString(i),
     summary |-> "Summary " \o ToString(i)]

Hits(n) == [i \in 1..n |-> Hit(i)]

TavilyOutcomes ==
    {[kind |-> "no_client", items |-> <<>>],
     [kind |-> "raised", items |-> <<>>]} \cup
    {[kind |-> "cached", items |-> Hits(n)] : n \in {1, MaxHits}} \cup
    {[kind |-> "searched", items |-> Hits(n)] : n \in {0, 1, MaxHits}}

\* the outcomes in which tc.search was requested
ProviderCalled(outcome) == outcome.kind \in {"searched", "raised"}

\* _do_search(state), given what search_recipes_tavily returned
do_search(state, results) == [state EXCEPT !.search_results = results]

\* s repeated n times
RECURSIVE Repeat(_, _)
Repeat(s, n) ==
    IF n = 0 THEN ""
    ELSE IF n % 2 = 0 THEN LET half == Repeat(s, n \div 2) IN half \o half
    ELSE s \o Repeat(s, n - 1)

\* a text of 5,000 characters
LongText == Repeat("Stir well. ", 454) \o "Serve."

\* the texts the LLM answers with: short ones, one padded with whitespace
\* on both sides, one whose 12th character is a space, one that is longer
\* than 12 characters by its trailing whitespace only, and a long one
LlmTexts ==
    {"Dice it finely.", "  Try this trending bowl today.  ",
     "Simmer rice  gently.", "Serve warm.   ", LongText}

Whitespace == {" ", "\t", "\n", "\r"}

\* str.rstrip(), str.lstrip(), str.strip()
RECURSIVE RStrip(_)
RStrip(s) ==
    IF s # "" /\ SubSeq(s, Len(s), Len(s)) \in Whitespace
    THEN RStrip(SubSeq(s, 1, Len(s) - 1)) ELSE s

RECURSIVE LStrip(_)
LStrip(s) ==
    IF s # "" /\ SubSeq(s, 1, 1) \in Whitespace
    THEN LStrip(SubSeq(s, 2, Len(s))) ELSE s

Strip(s) == RStrip(LStrip(s))

\* LLM_MAX_CHARS: unset (2500) or set
DefaultMaxChars == 2500
MaxCharsSettings == {DefaultMaxChars, 12}

\* a guard that keeps one character more than the budget
Guarded_KeepsOneMore(answer, max_chars) ==
    IF Len(answer) > max_chars
    THEN RStrip(PySlice(answer, max_chars + 1)) \o "\n\n...(trimmed)"
    ELSE answer

\* the max output guard of _generate
Guarded(answer, max_chars) ==
    IF Len(answer) > max_chars
    THEN RStrip(PySlice(answer, max_chars)) \o "\n\n...(trimmed)"
    ELSE answer

answer_of ==
    [text \in LlmTexts |->
        [max_chars \in MaxCharsSettings |-> Guarded(Strip(text), max_chars)]]

\* _generate(state), given the text the LLM returned
generate(state, text, max_chars) ==
    [state EXCEPT !.answer = answer_of[text][max_chars]]

\* r.get(key) or "": the keys of the records of search_recipes_tavily are
\* title, sourceUrl and summary
Get(r, key) == IF key \in DOMAIN r THEN r[key] ELSE ""

\* one entry of parts in _generate
SearchPart(r) ==
    LET title == IF Get(r, "title") # "" THEN Get(r, "title") ELSE "Result"
        url == Get(r, "url")
        snippet == IF Get(r, "snippet") # "" THEN Get(r, "snippet")
                   ELSE Get(r, "content")
    IN  "- " \o title \o ": " \o snippet \o "\n  " \o url

\* parts, which _generate joins with line feeds under the heading
\* "Recent findings (web):"
SearchParts(search_results) ==
    LET shown == PySlice(search_results, 5)
    IN  [k \in 1..Len(shown) |-> SearchPart(shown[k])]

\* m.get("role", "user").upper()
RoleTag(role) == IF role = "user" THEN "USER" ELSE "ASSISTANT"

\* a history that keeps every message of hist
RECURSIVE HistoryLines_All(_, _)
HistoryLines_All(hist, i) ==
    IF i > Len(hist) THEN <<>>
    ELSE <<RoleTag(hist[i].role) \o ": " \o hist[i].content>>
             \o HistoryLines_All(hist, i + 1)

\* history_snippet_lines over hist from its i-th message on
RECURSIVE HistoryLines(_, _)
HistoryLines(hist, i) ==
    IF i > Len(hist) THEN <<>>
    ELSE LET content == Strip(hist[i].content)
         IN  (IF content # ""
              THEN <<RoleTag(hist[i].role) \o ": " \o content>> ELSE <<>>)
                 \o HistoryLines(hist, i + 1)

\* what _generate puts into the prompt from the state: the search result
\* lines and the history lines (each list joined with line feeds)
Prompt(state) ==
    [parts |-> SearchParts(state.search_results),
     history_snippet_lines |-> HistoryLines(LastOf(state.history, 10), 1)]

NoPrompt == [parts |-> <<>>, history_snippet_lines |-> <<>>]

\* _router(state)
router(state) == IF state.needs_search THEN "search" ELSE "generate"

\* the edges added with add_edge
Edges ==
    {<<"route", "search">>, <<"route", "generate">>,
     <<"search", "generate">>, <<"generate", "END">>}

\* the nodes due in the next superstep once the nodes of `nodes` have run
\* and their writes are in `state`: the target of every edge leaving one
\* of them, and the node _router names if route ran
Triggered(nodes, state) ==
    ({e[2] : e \in {e \in Edges : e[1] \in nodes}}
        \cup (IF "route" \in nodes THEN {router(state)} ELSE {}))
    \ {"END"}

\* every key of GraphState is reduced with lambda x, y: y, and a node
\* returns the whole state: each write replaces every key
RECURSIVE ApplyWrites(_, _, _)
ApplyWrites(state, writes, i) ==
    IF i > Len(writes) THEN state
    ELSE ApplyWrites(writes[i].state, writes, i + 1)

\* the initial state run_graph builds
InitialState(user_message, history) ==
    [query |-> user_message, history |-> history, needs_search |-> FALSE,
     route_taken |-> "", search_results |-> <<>>, answer |-> ""]

InitPipeline ==
    /\ InitServer
    /\ pure = NoCall
    /\ analysis = NoAnalysis
    /\ turn = NoTurn
    /\ db \in MessageTables
    /\ stream = NoStream
    /\ workers = NoWorkers
    /\ chat_sessions = Sessions
    /\ chat = NoChat
    /\ recipe_cache = <<>>
    /\ tavily = NoLookup

\* run_graph(session_id, user_message, ...): _compiled.invoke(initial)
\* starts at the entry point
RunGraph ==
    \E session_id \in Sessions, user_message \in UserQueries,
       max_chars \in MaxCharsSettings :
        /\ turn.pc = "idle"
        /\ turn' = [pc |-> "running", session_id |-> session_id,
                    max_chars |-> max_chars,
                    state |-> InitialState(user_message,
                                           History(db, session_id)),
                    due |-> {"route"}, writes |-> <<>>, ran |-> <<>>,
                    requests |-> 0, llm_calls |-> 0, llm_text |-> "",
                    seen |-> <<>>, prompt |-> NoPrompt]
        /\ UNCHANGED <<api_health, now, env, last, pure, analysis, db, stream, workers, chat_sessions, chat, recipe_cache, tavily>>

\* node n is due in this superstep and has not run in it
Due(n) ==
    /\ turn.pc = "running"
    /\ n \in turn.due
    /\ \A i \in 1..Len(turn.writes) : turn.writes[i].node # n

\* the node ran on the state of the superstep and returned `state`
Ran(n, state) ==
    [turn EXCEPT !.writes = Append(@, [node |-> n, state |-> state]),
                 !.ran = Append(@, n)]

\* the route node
RouteNode ==
    /\ Due("route")
    /\ turn' = Ran("route", should_search(turn.state))
    /\ UNCHANGED <<api_health, now, env, last, pure, analysis, db, stream, workers, chat_sessions, chat, recipe_cache, tavily>>

\* the search node; a fault of tc.search propagates out of invoke
SearchNode ==
    \E outcome \in TavilyOutcomes :
        /\ Due("search")
        /\ turn' =
              IF outcome.kind = "raised"
              THEN [turn EXCEPT !.pc = "raised", !.ran = Append(@, "search"),
                                !.requests = @ + 1]
              ELSE [Ran("search", do_search(turn.state, outcome.items))
                       EXCEPT !.requests =
                                  IF ProviderCalled(outcome) THEN @ + 1 ELSE @]
        /\ UNCHANGED <<api_health, now, env, last, pure, analysis, db, stream, workers, chat_sessions, chat, recipe_cache, tavily>>

\* the generate node; a fault of llm.invoke propagates out of invoke
GenerateNode ==
    \E text \in LlmTexts \cup {"raise"} :
        /\ Due("generate")
        /\ turn' =
              IF text = "raise"
              THEN [turn EXCEPT !.pc = "raised",
                                !.ran = Append(@, "generate"),
                                !.llm_calls = @ + 1,
                                !.seen = turn.state.search_results,
                                !.prompt = Prompt(turn.state)]
              ELSE [Ran("generate", generate(turn.state, text, turn.max_chars))
                       EXCEPT !.llm_calls = @ + 1, !.llm_text = text,
                              !.seen = turn.state.search_results,
                              !.prompt = Prompt(turn.state)]
        /\ UNCHANGED <<api_health, now, env, last, pure, analysis, db, stream, workers, chat_sessions, chat, recipe_cache, tavily>>

\* the end of a superstep: every node due has run; their writes are applied
\* (in either order when two nodes ran), the nodes they trigger are due
\* next, and invoke returns when none is
Superstep ==
    /\ turn.pc = "running"
    /\ Len(turn.writes) = Cardinality(turn.due)
    /\ \E writes \in {turn.writes, Reverse(turn.writes)} :
          LET state == ApplyWrites(turn.state, writes, 1)
              due == Triggered({writes[i].node : i \in 1..Len(writes)}, state)
          IN  turn' = [turn EXCEPT !.state = state, !.due = due,
                                   !.writes = <<>>,
                                   !.pc = IF due = {} THEN "returned"
                                          ELSE "running"]
    /\ UNCHANGED <<api_health, now, env, last, pure, analysis, db, stream, workers, chat_sessions, chat, recipe_cache, tavily>>

\* run_graph has returned final.get("answer", "") or raised
TurnDone ==
    /\ turn.pc \in {"returned", "raised"}
    /\ turn' = NoTurn
    /\ UNCHANGED <<api_health, now, env, last, pure, analysis, db, stream, workers, chat_sessions, chat, recipe_cache, tavily>>

NextPipeline ==
    RunGraph \/ RouteNode \/ SearchNode \/ GenerateNode \/ Superstep
        \/ TurnDone

SpecPipeline == InitPipeline /\ [][NextPipeline]_vars

InTurn == turn.pc # "idle"
Visited(n) == InTurn /\ \E i \in 1..Len(turn.ran) : turn.ran[i] = n
\* route has run and its writes are in the state
Routed == Visited("route") /\ ~Due("route") /\ turn.due # {"route"}

\* ------------------------------------------------------------- C11
\* C11: merging the mapping of one provider to a record of five
\* non-negative values returns that record, nutrient by nutrient.
C11_MergeIdempotent ==
    (Merged /\ Len(pure.nutrition_results) = 1)
        => \A k \in 1..Len(Nutrients) :
               pure.result[Nutrients[k]] =
                   pure.nutrition_results[1].data[Nutrients[k]]

\* a record with zero and positive values was merged alone
C11_Witness ==
    /\ Merged
    /\ Len(pure.nutrition_results) = 1
    /\ pure.nutrition_results[1].data = Nutrition(MaxValue, 0, 1, 0, MaxValue)
    /\ pure.result = Nutrition(MaxValue, 0, 1, 0, MaxValue)

\* ------------------------------------------------------------- C12
\* the greatest of a finite non-empty set of integers
Greatest(S) == CHOOSE m \in S : \A x \in S : x <= m

\* what the providers of the mapping observed for nutrient n
Observed(n) ==
    {pure.nutrition_results[i].data[n] :
        i \in 1..Len(pure.nutrition_results)}

\* C12: the merged value of each nutrient is the greatest value any
\* provider of the mapping reported for it, whatever the order of the
\* providers; it is 0 when no provider reported a positive value, and the
\* empty mapping merges to the all-zero record.
C12_MergeMaximal ==
    Merged =>
        /\ \A k \in 1..Len(Nutrients) :
               pure.result[Nutrients[k]] =
                   Greatest({0} \cup Observed(Nutrients[k]))
        /\ pure.result =
               merge_nutrition_data(Reverse(pure.nutrition_results))
        /\ (pure.nutrition_results = <<>> => pure.result = ZeroNutrition)

\* two records were merged, each with the greater value of some nutrient
C12_Witness ==
    /\ Merged
    /\ Len(pure.nutrition_results) = 2
    /\ pure.nutrition_results[1].data.calories
           > pure.nutrition_results[2].data.calories
    /\ pure.nutrition_results[1].data.protein
           < pure.nutrition_results[2].data.protein
    /\ pure.nutrition_results[1].data.calories > 0
    /\ pure.nutrition_results[2].data.calories > 0
    /\ pure.result.carbs = 0
    /\ pure.result.calories = pure.nutrition_results[1].data.calories
    /\ pure.result.protein = pure.nutrition_results[2].data.protein

\* ------------------------------------------------------------- C13
\* the bucket of an ingredient when the buckets are tried in the order
\* protein-rich, high-carb, high-fat, high-fiber, low-calorie
PriorityBucket(ingredient_lower) ==
    IF AnyWordIn(ingredient_lower, estimations.protein) THEN "protein"
    ELSE IF AnyWordIn(ingredient_lower, estimations.high_carb)
    THEN "high_carb"
    ELSE IF AnyWordIn(ingredient_lower, estimations.high_fat) THEN "high_fat"
    ELSE IF AnyWordIn(ingredient_lower, estimations.high_fiber)
    THEN "high_fiber"
    ELSE IF AnyWordIn(ingredient_lower, estimations.low_cal) THEN "low_cal"
    ELSE "default"

priority_bucket_of ==
    [ingredient \in Ingredients |-> PriorityBucket(Lower(ingredient))]

\* what one ingredient of a bucket contributes
Contribution ==
    [protein |-> Nutrition(100, 15, 0, 0, 0),
     high_carb |-> Nutrition(150, 0, 30, 0, 0),
     high_fat |-> Nutrition(120, 0, 0, 12, 0),
     high_fiber |-> Nutrition(50, 0, 0, 0, 8),
     low_cal |-> Nutrition(25, 0, 0, 0, 3),
     default |-> Nutrition(75, 0, 15, 0, 0)]

\* the number of ingredients of the list whose bucket is b
CountOf(ingredients, b) ==
    Cardinality({i \in 1..Len(ingredients) :
                    priority_bucket_of[ingredients[i]] = b})

\* C13: the estimate is the sum, over the ingredients, of the contribution
\* of the first bucket that matches the lower-cased ingredient when the
\* buckets are tried in the order protein-rich, high-carb, high-fat,
\* high-fiber, low-calorie (so an ingredient with a high-fiber and a
\* low-calorie keyword counts as high-fiber); an ingredient matching no
\* bucket contributes the default, and none contributes twice.
C13_BucketPriority ==
    Estimated =>
        \A k \in 1..Len(Nutrients) :
            pure.result[Nutrients[k]] =
                  CountOf(pure.ingredients, "protein")
                      * Contribution.protein[Nutrients[k]]
                + CountOf(pure.ingredients, "high_carb")
                      * Contribution.high_carb[Nutrients[k]]
                + CountOf(pure.ingredients, "high_fat")
                      * Contribution.high_fat[Nutrients[k]]
                + CountOf(pure.ingredients, "high_fiber")
                      * Contribution.high_fiber[Nutrients[k]]
                + CountOf(pure.ingredients, "low_cal")
                      * Contribution.low_cal[Nutrients[k]]
                + CountOf(pure.ingredients, "default")
                      * Contribution.default[Nutrients[k]]

\* ------------------------------------------------------------- C14
\* C14: no value of an estimate is negative, and the calories of the
\* estimate of a list with one more ingredient are strictly greater than
\* those of the estimate of the list without it.
C14_EstimateGrows ==
    Estimated =>
        /\ \A k \in 1..Len(Nutrients) : pure.result[Nutrients[k]] >= 0
        /\ Len(pure.ingredients) >= 1 =>
               pure.result.calories >
                   estimate_nutrition(
                       SubSeq(pure.ingredients, 1,
                              Len(pure.ingredients) - 1)).calories

\* an ingredient of no bucket was added to a list of one ingredient
C14_Witness ==
    /\ Estimated
    /\ Len(pure.ingredients) = 2
    /\ bucket_of[pure.ingredients[2]] = "default"
    /\ pure.result.calories =
           estimate_nutrition(<<pure.ingredients[1]>>).calories + 75

\* ------------------------------------------------------------- C15
\* C15: the analysis returned for a recipe record with non-negative
\* nutrition values, whatever its servings count, has a health score
\* between 0 and 100.
C15_ScoreInRange ==
    Returned =>
        analysis.result.health_score >= 0 /\ analysis.result.health_score <= 100

\* a recipe of two servings got the full score from its own nutrient list
C15_Witness ==
    /\ Returned
    /\ analysis.recipe_data.servings = 2
    /\ analysis.recipe_data.nutrients # <<>>
    /\ analysis.result.health_score = 100

\* ------------------------------------------------------------- C16
\* the entries of the recipe's own nutrient list that fill a field
OwnEntries ==
    {i \in 1..Len(analysis.recipe_data.nutrients) :
        nutrient_field_of[analysis.recipe_data.nutrients[i].name] # "none"}

\* C16: for every servings count, 0 included, analyze_nutrition returns
\* with no error, and each per-serving value is the nutrition value
\* divided by max(servings, 1): the values of the recipe's own nutrient
\* list when it gives the calories, the values of the ingredient lookup
\* when that is made.
C16_DividesByAtLeastOne ==
    Analysed =>
        /\ ~analysis.result.raised
        /\ ~OwnCaloriesZero =>
               \A i \in OwnEntries :
                   Equal(analysis.result[nutrient_field_of[
                             analysis.recipe_data.nutrients[i].name]],
                         Quotient(analysis.recipe_data.nutrients[i].amount,
                                  Max(analysis.recipe_data.servings, 1)))
        /\ analysis.looked_up =>
               /\ Equal(analysis.result.calories_per_serving,
                        Quotient(analysis.nutrition_data.calories,
                                 Max(analysis.recipe_data.servings, 1)))
               /\ Equal(analysis.result.protein_per_serving,
                        Quotient(analysis.nutrition_data.protein,
                                 Max(analysis.recipe_data.servings, 1)))
               /\ Equal(analysis.result.carbs_per_serving,
                        Quotient(analysis.nutrition_data.carbs,
                                 Max(analysis.recipe_data.servings, 1)))
               /\ Equal(analysis.result.fat_per_serving,
                        Quotient(analysis.nutrition_data.fat,
                                 Max(analysis.recipe_data.servings, 1)))

\* ------------------------------------------------------------- C17
\* the analysis holds the defaults of the recipe's category
HoldsCategoryDefaults ==
    LET category == analysis.recipe_data.category
        calories == IF category = "Dessert" THEN 400
                    ELSE IF category = "Chicken Soup" THEN 250 ELSE 350
        carbs == IF category = "Dessert" THEN 60
                 ELSE IF category = "Chicken Soup" THEN 20 ELSE 30
        fat == IF category = "Dessert" THEN 20
               ELSE IF category = "Chicken Soup" THEN 10 ELSE 15
    IN  /\ analysis.result.calories_per_serving = Whole(calories)
        /\ analysis.result.carbs_per_serving = Whole(carbs)
        /\ analysis.result.fat_per_serving = Whole(fat)

\* a health score was computed: the analysis carries its recommendations
ScoreComputed == analysis.result.recommendations # <<>>

C18_AnalysisPure ==
    Analysed =>
        /\ api_health = analysis.pre
        /\ \A resp \in AnalysisResponses :
           \A health \in {analysis.pre, api_health, InitHealth(0)} :
               analyze_nutrition(health, analysis.recipe_data, resp, env,
                                 now).result = analysis.result

\* ------------------------------------------------------------- C19
\* the lower-cased query holds a trigger word
HoldsTrigger(query) ==
    \E i \in 1..Len(trigger_words) : Contains(Lower(query), trigger_words[i])

holds_trigger == [query \in UserQueries |-> HoldsTrigger(query)]

\* C19: once Route has run, needs_search is true exactly when the
\* lower-cased query holds a trigger word as a substring, and route_taken
\* is "search" exactly when needs_search is true and "generate" otherwise;
\* "What's the latest trending recipe?" needs a search and "How do I dice
\* an onion?" does not; the decision depends on the query alone.
C19_RouteByTriggerWords ==
    Routed =>
        /\ turn.state.needs_search = holds_trigger[turn.state.query]
        /\ turn.state.route_taken =
               (IF turn.state.needs_search THEN "search" ELSE "generate")
        /\ turn.state.query = "What's the latest trending recipe?"
               => turn.state.needs_search
        /\ turn.state.query = "How do I dice an onion?"
               => ~turn.state.needs_search

\* a query with an upper-case trigger word was routed to search
C19_Witness ==
    /\ Routed
    /\ turn.state.query = "NEWS on keto"
    /\ turn.state.needs_search
    /\ turn.state.route_taken = "search"

\* ------------------------------------------------------------- C20
\* C20: in every run the Search node executes only if Route set
\* needs_search to true; when it is false the run goes from Route to
\* Generate directly and the web-search provider is not called.
C20_SearchOnlyWhenNeeded ==
    (Routed /\ ~turn.state.needs_search) =>
        /\ ~Visited("search")
        /\ "search" \notin turn.due
        /\ turn.requests = 0

\* ------------------------------------------------------------- C21
\* the number of times node n ran in the turn
TimesRan(n) == Cardinality({i \in 1..Len(turn.ran) : turn.ran[i] = n})

\* C21: a run that has reached its terminal state visited Route first and
\* Generate last, Search at most once between them, and Generate (hence
\* the LLM) exactly once, on either branch.
C21_GenerateOnce ==
    turn.pc = "returned" =>
        /\ turn.ran[1] = "route"
        /\ turn.ran[Len(turn.ran)] = "generate"
        /\ TimesRan("route") = 1
        /\ TimesRan("search") <= 1
        /\ TimesRan("generate") = 1
        /\ turn.llm_calls = 1

\* ------------------------------------------------------------- C22
\* C22: a failure of the web-search provider inside Search never aborts
\* the run: no run ends raised by the Search node (the run goes on to
\* Generate with an empty search_results list and returns an answer).
C22_SearchFailureTolerated ==
    InTurn =>
        ~(turn.pc = "raised" /\ turn.ran[Len(turn.ran)] = "search")

\* ------------------------------------------------------------- C23
\* Generate has just returned: the latest write is its state, made from
\* the text in turn.llm_text
Generated ==
    /\ turn.pc = "running"
    /\ turn.writes # <<>>
    /\ turn.writes[Len(turn.writes)].node = "generate"

GeneratedAnswer == turn.writes[Len(turn.writes)].state.answer

TrimmedSuffix == "\n\n...(trimmed)"

\* C23 (as stated): whenever the LLM text is longer than the character
\* budget, the answer is exactly the first budget-many characters of the
\* text followed by the trimmed suffix, and is never longer than budget
\* plus suffix length.
C23_TruncatedToBudget ==
    (Generated /\ Len(turn.llm_text) > turn.max_chars) =>
        /\ GeneratedAnswer =
               SubSeq(turn.llm_text, 1, turn.max_chars) \o TrimmedSuffix
        /\ Len(GeneratedAnswer) <= turn.max_chars + Len(TrimmedSuffix)

\* the characters of s from position i on are all whitespace
BlankFrom(s, i) == \A j \in i..Len(s) : SubSeq(s, j, j) \in Whitespace

\* the text without its leading and trailing whitespace
Core(text) ==
    LET lo == CHOOSE i \in 1..(Len(text) + 1) :
                     /\ \A j \in 1..(i - 1) : SubSeq(text, j, j) \in Whitespace
                     /\ i <= Len(text) => SubSeq(text, i, i) \notin Whitespace
        hi == CHOOSE i \in 0..Len(text) :
                    /\ BlankFrom(text, i + 1)
                    /\ i >= 1 => SubSeq(text, i, i) \notin Whitespace
    IN  SubSeq(text, lo, hi)

\* C23 (amended): whenever the LLM text, leading and trailing whitespace
\* removed, is longer than the character budget, the answer is the first
\* budget-many characters of that text with their trailing whitespace
\* removed, followed by the trimmed suffix: exactly budget-many characters
\* before the suffix when the last of them is not whitespace, fewer
\* otherwise, never more; a text that is not longer is answered whole.
C23_TruncatedAfterStrip ==
    Generated =>
        LET core == Core(turn.llm_text)
            head == SubSeq(core, 1, Min(turn.max_chars, Len(core)))
            kept == Len(GeneratedAnswer) - Len(TrimmedSuffix)
        IN  IF Len(core) > turn.max_chars
            THEN /\ kept >= 0 /\ kept <= turn.max_chars
                 /\ GeneratedAnswer = SubSeq(head, 1, kept) \o TrimmedSuffix
                 /\ BlankFrom(head, kept + 1)
                 /\ kept >= 1 => SubSeq(head, kept, kept) \notin Whitespace
                 /\ Len(GeneratedAnswer) <= turn.max_chars + Len(TrimmedSuffix)
            ELSE GeneratedAnswer = core

\* a text of 5,000 characters was cut to the default budget of 2,500
C23_Witness ==
    /\ Generated
    /\ Len(turn.llm_text) = 5000
    /\ turn.max_chars = DefaultMaxChars
    /\ Len(GeneratedAnswer) = DefaultMaxChars + Len(TrimmedSuffix)
    /\ GeneratedAnswer =
           SubSeq(turn.llm_text, 1, DefaultMaxChars) \o TrimmedSuffix

\* ------------------------------------------------------------- C24
\* C24: with the default budget, whatever text the LLM returns, the answer
\* run_graph returns has at most 2500 characters.
C24_AnswerWithinBudget ==
    (turn.pc = "returned" /\ turn.max_chars = DefaultMaxChars) =>
        Len(turn.state.answer) <= DefaultMaxChars

\* ------------------------------------------------------------- /api/chat/stream
\* the message query parameter, before .strip()
RawMessages == {" How do I dice an onion? ", "And a leek?", "  "}

\* what run_graph or generate_reply comes to: a reply, or a fault
Replies ==
    {"", "Dice it finely.", Repeat("ab", 100), Repeat("Stir well. ", 41),
     "1. Chop the onion.\n2. Fry it.", "Dice it\n\n...(trimmed)"}

\* str(e) of the faults
FaultMessages == {"timeout", "quota exceeded\nretry later"}

ReplyOutcomes ==
    {[raised |-> TRUE, reply |-> "", error |-> m] : m \in FaultMessages} \cup
    {[raised |-> FALSE, reply |-> r, error |-> ""] : r \in Replies}

chunk_size == 200

\* reply[i:i+chunk_size] for i in range(0, len(reply), chunk_size)
Chunks(reply) ==
    [k \in 1..((Len(reply) + chunk_size - 1) \div chunk_size) |->
        SubSeq(reply, (k - 1) * chunk_size + 1,
               Min(k * chunk_size, Len(reply)))]

\* what generate_stream yields after the reply is there
Yields(reply) ==
    [k \in 1..Len(Chunks(reply)) |-> "data: " \o Chunks(reply)[k] \o "\n\n"]
        \o <<"event: end\ndata: done\n\n">>

\* a generator that closes the stream of a fault with the end event
YieldsOnError_ThenEnd(error) ==
    <<"data: ERROR: " \o error \o "\n\n", "event: end\ndata: done\n\n">>

\* what generate_stream yields when the reply raised: str(e), and return
YieldsOnError(error) == <<"data: ERROR: " \o error \o "\n\n">>

yields_of ==
    [o \in ReplyOutcomes |->
        IF o.raised THEN YieldsOnError(o.error) ELSE Yields(o.reply)]

InitChat ==
    /\ InitServer
    /\ pure = NoCall
    /\ analysis = NoAnalysis
    /\ turn = NoTurn
    /\ db = <<>>
    /\ stream = NoStream
    /\ workers = NoWorkers
    /\ chat_sessions = {}
    /\ chat = NoChat
    /\ recipe_cache = <<>>
    /\ tavily = NoLookup

\* a turn that stores the reply ahead of the user message
StoredTurn_ReplyFirst(table, session_id, user_msg, replied, reply) ==
    IF replied
    THEN table \o <<Message(session_id, "assistant", reply),
                    Message(session_id, "user", user_msg)>>
    ELSE Append(table, Message(session_id, "user", user_msg))

\* the messages table after a turn: the user message is stored before the
\* reply is asked for, the reply once it is there
StoredTurn(table, session_id, user_msg, replied, reply) ==
    LET stored == Append(table, Message(session_id, "user", user_msg))
    IN  IF replied
        THEN Append(stored, Message(session_id, "assistant", reply))
        ELSE stored

\* one request of /api/chat/stream, to the end of its response: rejected
\* with 400, or the user message stored, the reply obtained and stored,
\* and the chunks and the end event yielded
ChatStream ==
    \E session_id \in Sessions \cup {""}, raw \in RawMessages,
       keys \in BOOLEAN, outcome \in ReplyOutcomes :
        LET user_msg == Strip(raw)
        IN  /\ stream.pc = "idle"
            /\ chat.pc = "idle"
            /\ Len(db) + 2 <= MaxMessages
            /\ IF session_id = "" \/ user_msg = "" \/ ~keys
               THEN /\ stream' = [pc |-> "rejected", session_id |-> session_id,
                                  user_msg |-> user_msg,
                                  raised |-> FALSE, reply |-> "",
                                  yielded |-> <<>>]
                    /\ UNCHANGED db
               ELSE /\ stream' = [pc |-> "done", session_id |-> session_id,
                                  user_msg |-> user_msg,
                                  raised |-> outcome.raised,
                                  reply |-> outcome.reply,
                                  yielded |-> yields_of[outcome]]
                    /\ db' = StoredTurn(db, session_id, user_msg,
                                        ~outcome.raised, outcome.reply)
            /\ UNCHANGED <<api_health, now, env, last, pure, analysis, turn, workers, chat_sessions, chat, recipe_cache, tavily>>

\* the client has read the response
StreamDone ==
    /\ stream.pc # "idle"
    /\ stream' = NoStream
    /\ UNCHANGED <<api_health, now, env, last, pure, analysis, turn, db, workers, chat_sessions, chat, recipe_cache, tavily>>

\* POST /api/sessions: a session of a fresh id
create_session ==
    \E id \in Sessions \ chat_sessions :
        /\ chat_sessions' = chat_sessions \cup {id}
        /\ UNCHANGED <<api_health, now, env, last, pure, analysis, turn, db,
                       stream, workers, chat, recipe_cache, tavily>>

\* what run_graph and generate_reply come to in /api/chat
GraphOutcomes ==
    {[raised |-> TRUE, reply |-> "", error |-> "timeout"]} \cup
    {[raised |-> FALSE, reply |-> r, error |-> ""] :
        r \in {"Dice it finely.", "Dice it\n\n...(trimmed)"}}

DirectOutcomes ==
    {[raised |-> TRUE, reply |-> "", error |-> "timeout"]} \cup
    {[raised |-> FALSE, reply |-> r, error |-> ""] :
        r \in {"Use a sharp knife.", ""}}

\* run_graph or generate_reply was not invoked
NotInvoked == [raised |-> FALSE, reply |-> "", error |-> "none"]

\* the answer of /api/chat, and what run_graph and generate_reply came to
\* in it
Answer(status, reply, graph, direct) ==
    [status |-> status, reply |-> reply, graph |-> graph, direct |-> direct]

\* a handler that does not fall back on the direct generation
Reply_NoFallback(use_graph, graph, direct) ==
    IF use_graph
    THEN IF graph.raised THEN Answer(500, "", graph, NotInvoked)
         ELSE Answer(200, graph.reply, graph, NotInvoked)
    ELSE IF direct.raised THEN Answer(500, "", NotInvoked, direct)
         ELSE Answer(200, direct.reply, NotInvoked, direct)

\* the reply of /api/chat: run_graph when requested, generate_reply when
\* it raises or is not requested; a fault of generate_reply leaves the
\* handler (status 500)
Reply(use_graph, graph, direct) ==
    IF use_graph /\ ~graph.raised
    THEN Answer(200, graph.reply, graph, NotInvoked)
    ELSE LET tried == IF use_graph THEN graph ELSE NotInvoked
         IN  IF direct.raised THEN Answer(500, "", tried, direct)
             ELSE Answer(200, direct.reply, tried, direct)

\* POST /api/chat, to its response
Chat ==
    \E session_id \in Sessions \cup {""}, raw \in RawMessages,
       use_graph \in BOOLEAN, llm_key \in BOOLEAN, search_key \in BOOLEAN,
       graph \in GraphOutcomes, direct \in DirectOutcomes :
        LET user_msg == Strip(raw)
            request == [pc |-> "done", session_id |-> session_id,
                        user_msg |-> user_msg, use_graph |-> use_graph,
                        pre |-> db]
            answer == Reply(use_graph, graph, direct)
        IN  /\ chat.pc = "idle"
            /\ stream.pc = "idle"
            /\ Len(db) + 2 <= MaxMessages
            /\ IF session_id = "" \/ user_msg = ""
               THEN /\ chat' = request @@ Answer(400, "", NotInvoked, NotInvoked)
                    /\ UNCHANGED db
               ELSE IF session_id \notin chat_sessions
               THEN /\ chat' = request @@ Answer(404, "", NotInvoked, NotInvoked)
                    /\ UNCHANGED db
               ELSE IF ~llm_key \/ (use_graph /\ ~search_key)
               THEN /\ chat' = request @@ Answer(400, "", NotInvoked, NotInvoked)
                    /\ db' = StoredTurn(db, session_id, user_msg, FALSE, "")
               ELSE /\ chat' = request @@ answer
                    /\ db' = StoredTurn(db, session_id, user_msg,
                                        answer.status = 200, answer.reply)
            /\ UNCHANGED <<api_health, now, env, last, pure, analysis, turn,
                           stream, workers, chat_sessions, recipe_cache, tavily>>

\* the client has read the answer
ChatDone ==
    /\ chat.pc # "idle"
    /\ chat' = NoChat
    /\ UNCHANGED <<api_health, now, env, last, pure, analysis, turn, db,
                   stream, workers, chat_sessions, recipe_cache, tavily>>

NextChat == create_session \/ Chat \/ ChatDone \/ ChatStream \/ StreamDone

SpecChat == InitChat /\ [][NextChat]_vars

\* ------------------------------------------------------------- C25
\* The response as a client of the event stream reads it: the text is cut
\* into lines; a line "field: value" sets the event type (field event) or
\* adds a data line (field data), other lines are ignored; an empty line
\* dispatches an event carrying the data lines joined by line feeds, if
\* there are any.
RECURSIVE Concat(_, _)
Concat(strings, i) ==
    IF i > Len(strings) THEN "" ELSE strings[i] \o Concat(strings, i + 1)

RECURSIVE SplitLines(_, _)
SplitLines(s, from) ==
    LET feeds == {j \in from..Len(s) : SubSeq(s, j, j) = "\n"}
    IN  IF feeds = {} THEN <<>>
        ELSE LET j == CHOOSE x \in feeds : \A y \in feeds : x <= y
             IN  <<SubSeq(s, from, j - 1)>> \o SplitLines(s, j + 1)

\* the field and the value of a line that is neither empty nor a comment
Field(line) ==
    LET colons == {j \in 1..Len(line) : SubSeq(line, j, j) = ":"}
    IN  IF colons = {} THEN [name |-> line, value |-> ""]
        ELSE LET j == CHOOSE x \in colons : \A y \in colons : x <= y
                 rest == SubSeq(line, j + 1, Len(line))
             IN  [name |-> SubSeq(line, 1, j - 1),
                  value |-> IF rest # "" /\ SubSeq(rest, 1, 1) = " "
                            THEN SubSeq(rest, 2, Len(rest)) ELSE rest]

RECURSIVE Dispatch(_, _, _, _, _)
Dispatch(lines, i, type, data, events) ==
    IF i > Len(lines) THEN events
    ELSE IF lines[i] = ""
    THEN Dispatch(lines, i + 1, "", <<>>,
                  IF data = <<>> THEN events
                  ELSE Append(events,
                              [type |-> IF type = "" THEN "message" ELSE type,
                               data |-> SubSeq(Concat(data, 1), 2,
                                               Len(Concat(data, 1)))]))
    ELSE IF SubSeq(lines[i], 1, 1) = ":"
    THEN Dispatch(lines, i + 1, type, data, events)
    ELSE LET f == Field(lines[i])
         IN  IF f.name = "event"
             THEN Dispatch(lines, i + 1, f.value, data, events)
             ELSE IF f.name = "data"
             THEN Dispatch(lines, i + 1, type,
                           Append(data, "\n" \o f.value), events)
             ELSE Dispatch(lines, i + 1, type, data, events)

\* the events of the response under way
Events == Dispatch(SplitLines(Concat(stream.yielded, 1), 1), 1, "", <<>>, <<>>)

Completed == stream.pc = "done" /\ ~stream.raised

\* C25: for every completed reply the stream emits data events whose
\* payloads are the consecutive slices of the reply, in order, every slice
\* but the last of exactly 200 characters and the last of 1 to 200, whose
\* concatenation is the reply, followed by exactly one end event, which is
\* the last event of the stream.
C25_ChunkedInOrder ==
    Completed =>
        LET events == Events
            n == Len(events) - 1
        IN  /\ n >= 0
            /\ events[n + 1].type = "end"
            /\ \A k \in 1..n : events[k].type = "message"
            /\ \A k \in 1..n :
                   events[k].data =
                       SubSeq(stream.reply, (k - 1) * 200 + 1,
                              Min(k * 200, Len(stream.reply)))
            /\ \A k \in 1..(n - 1) : Len(events[k].data) = 200
            /\ n >= 1 => Len(events[n].data) \in 1..200
            /\ Concat([k \in 1..n |-> events[k].data], 1) = stream.reply

\* ------------------------------------------------------------- concurrency
\* Requests are served each in a thread of its own, and all of them call
\* the one instance mcp_server. The statement
\*     self.api_health[api_name]['failures'] += 1
\* reads the count, adds one and stores the sum, and another thread may run
\* between any two of these steps. Each worker here is one invocation of
\* search_recipes_with_fallback whose provider call raises.
InitWorkers ==
    /\ InitServer
    /\ pure = NoCall
    /\ analysis = NoAnalysis
    /\ turn = NoTurn
    /\ db = <<>>
    /\ stream = NoStream
    /\ workers = NoWorkers
    /\ chat_sessions = {}
    /\ chat = NoChat
    /\ recipe_cache = <<>>
    /\ tavily = NoLookup

\* the loop reaches a provider that is marked available and calls it
CallProvider(w) ==
    \E i \in DOMAIN api_priority :
        /\ workers[w].pc = "idle"
        /\ IsAvailable(api_health[api_priority[i]])
        /\ workers' = [workers EXCEPT ![w] = [pc |-> "calling",
                                              api_name |-> api_priority[i],
                                              failures |-> 0]]
        /\ UNCHANGED <<api_health, now, env, last, pure, analysis, turn, db,
                       stream, chat_sessions, chat, recipe_cache, tavily>>

\* the call raises; the handler reads the count
ReadFailures(w) ==
    /\ workers[w].pc = "calling"
    /\ workers' = [workers EXCEPT ![w].pc = "read",
                       ![w].failures = api_health[workers[w].api_name].failures]
    /\ UNCHANGED <<api_health, now, env, last, pure, analysis, turn, db,
                   stream, chat_sessions, chat, recipe_cache, tavily>>

\* the handler stores the count it read, plus one
WriteFailures(w) ==
    /\ workers[w].pc = "read"
    /\ api_health' = [api_health EXCEPT ![workers[w].api_name].failures =
                                            workers[w].failures + 1]
    /\ workers' = [workers EXCEPT ![w].pc = "written"]
    /\ UNCHANGED <<now, env, last, pure, analysis, turn, db, stream, chat_sessions, chat, recipe_cache, tavily>>

\* the handler marks the provider unavailable after 3 failures
MarkUnavailable(w) ==
    /\ workers[w].pc = "written"
    /\ api_health' =
           IF api_health[workers[w].api_name].failures >= 3
           THEN [api_health EXCEPT ![workers[w].api_name].available = FALSE]
           ELSE api_health
    /\ workers' = [workers EXCEPT ![w].pc = "done"]
    /\ UNCHANGED <<now, env, last, pure, analysis, turn, db, stream, chat_sessions, chat, recipe_cache, tavily>>

NextWorkers ==
    \E w \in Workers :
        \/ CallProvider(w)
        \/ ReadFailures(w)
        \/ WriteFailures(w)
        \/ MarkUnavailable(w)

SpecWorkers == InitWorkers /\ [][NextWorkers]_vars

\* ------------------------------------------------------------- C26
FailedCalls(p) == Cardinality({w \in Workers : workers[w].api_name = p})

\* C26: no update of a failure count is lost: when k calls of one provider
\* have failed in invocations that ran side by side, with no success in
\* between, the provider's count is k, and the provider is unavailable once
\* k is 3 or more, whatever the order of the reads and the writes.
C26_NoLostUpdate ==
    (\A w \in Workers : workers[w].pc = "done") =>
        \A i \in DOMAIN api_priority :
            /\ api_health[api_priority[i]].failures =
                   FailedCalls(api_priority[i])
            /\ FailedCalls(api_priority[i]) >= 3 =>
                   ~api_health[api_priority[i]].available

\* ------------------------------------------------------------- C27
\* provider p returned a record with a non-zero nutrient in the lookup that
\* has just returned
GaveData(p) ==
    /\ last.nutrition_outcome[p].kind = "returned"
    /\ AnyValue(last.nutrition_outcome[p].value)

\* C27: the nutrition lookup stops at the first provider, usda then
\* fatsecret, that returns a record with a non-zero nutrient: no later
\* provider is called, the provider's failure count is reset to 0, and the
\* five values returned are that provider's values.
C27_FirstDataWins ==
    last.op = "nutrition" =>
        \A i \in DOMAIN nutrition_apis :
            GaveData(nutrition_apis[i]) =>
                /\ \A j \in DOMAIN nutrition_apis :
                       j > i => last.nutrition_outcome[nutrition_apis[j]]
                                    = NotCalledN
                /\ api_health[nutrition_apis[i]].failures = 0
                /\ \A k \in DOMAIN Nutrients :
                       last.nutrition[Nutrients[k]] =
                           last.nutrition_outcome[nutrition_apis[i]]
                               .value[Nutrients[k]]

\* a lookup that got data from a provider with failures on its count
C27_Witness ==
    /\ last.op = "nutrition"
    /\ \E p \in NutritionProviders :
           GaveData(p) /\ last.pre[p].failures > 0

\* ------------------------------------------------------------- C28
\* grams * cal_per_gram is at most (at least) pct percent of calories; all
\* of them are fractions [num, den] with den > 0, and calories > 0
ShareAtMost(grams, cal_per_gram, calories, pct) ==
    100 * cal_per_gram * grams.num * calories.den
        <= pct * calories.num * grams.den

ShareAtLeast(grams, cal_per_gram, calories, pct) ==
    pct * calories.num * grams.den
        <= 100 * cal_per_gram * grams.num * calories.den

\* the three balance terms and the calorie band of the returned analysis
ClaimedBalance ==
    LET r == analysis.result
        calories == r.calories_per_serving
    IN  (IF /\ ShareAtLeast(r.protein_per_serving, 4, calories, 10)
            /\ ShareAtMost(r.protein_per_serving, 4, calories, 30)
         THEN 25 ELSE 0)
        + (IF ShareAtMost(r.carbs_per_serving, 4, calories, 65)
           THEN 25 ELSE 0)
        + (IF ShareAtMost(r.fat_per_serving, 9, calories, 35)
           THEN 25 ELSE 0)

ClaimedCalorieScore ==
    LET c == analysis.result.calories_per_serving
    IN  IF 200 * c.den <= c.num /\ c.num <= 600 * c.den THEN 25
        ELSE IF c.num < 200 * c.den THEN 15
        ELSE IF c.num > 800 * c.den THEN 10
        ELSE 20

PositiveCalories ==
    Returned /\ analysis.result.calories_per_serving.num > 0

\* C28: for per-serving calories above zero, health_score is balance_score
\* plus calorie_score (25 each for a protein share of 10 to 30 percent, a
\* carb share of at most 65 percent, a fat share of at most 35 percent; 25
\* for calories in [200, 600], 15 below 200, 10 above 800, 20 otherwise);
\* the first recommendation is the well-balanced one iff balance_score is
\* at least 50, the second the low-calorie one iff calories are below 200.
C28_ScoreAndAdvice ==
    PositiveCalories =>
        LET r == analysis.result
            c == r.calories_per_serving
        IN  /\ r.health_score = ClaimedBalance + ClaimedCalorieScore
            /\ Len(r.recommendations) = 2
            /\ r.recommendations[1] = "Well-balanced macronutrients!"
                   <=> ClaimedBalance >= 50
            /\ r.recommendations[2] = "May need more calories for satiety"
                   <=> c.num < 200 * c.den

\* an analysis of 600 to 800 calories with too large a share of fat
C28_Witness ==
    /\ PositiveCalories
    /\ ClaimedCalorieScore = 20
    /\ ClaimedBalance < 50
    /\ ~ShareAtMost(analysis.result.fat_per_serving, 9,
                    analysis.result.calories_per_serving, 35)

\* ------------------------------------------------------------- C29
\* _generate has composed a prompt in the turn under way
Composed == InTurn /\ turn.llm_calls > 0

\* C29: when the search produced results, the prompt Generate composes has
\* one line for each of the first 5 results and for no other, and each
\* line carries that result's title, its content text and its URL as they
\* are stored in the record the search provider returned.
C29_SearchLinesInPrompt ==
    (Composed /\ turn.seen # <<>>) =>
        /\ Len(turn.prompt.parts) = Min(5, Len(turn.seen))
        /\ \A k \in 1..Len(turn.prompt.parts) :
               /\ Contains(turn.prompt.parts[k], turn.seen[k].title)
               /\ Contains(turn.prompt.parts[k], turn.seen[k].summary)
               /\ Contains(turn.prompt.parts[k], turn.seen[k].sourceUrl)

\* ------------------------------------------------------------- C30
\* the rows of the turn's session, by their place in the table
OfSession == {i \in 1..Len(db) : db[i].session_id = turn.session_id}

\* the most recent 10 of them (all of them when there are fewer), less
\* those of empty content
Recent ==
    {i \in OfSession :
        /\ Cardinality({j \in OfSession : j > i}) < 10
        /\ db[i].content # ""}

Answered == chat.pc = "done"

\* the rows the request added to the messages table
Added == SubSeq(db, Len(chat.pre) + 1, Len(db))

AssistantRows(rows) == {i \in 1..Len(rows) : rows[i].role = "assistant"}

\* C31: in /api/chat with use_graph, when the pipeline raises the direct
\* generation is invoked once and its reply is the one persisted and
\* returned; when the pipeline succeeds the direct generation is not
\* invoked; either way at most one assistant message is persisted.
C31_FallbackOnce ==
    (Answered /\ chat.use_graph /\ chat.graph # NotInvoked) =>
        /\ chat.graph.raised =>
               /\ chat.direct # NotInvoked
               /\ ~chat.direct.raised =>
                      /\ chat.status = 200
                      /\ chat.reply = chat.direct.reply
                      /\ Added[Len(Added)] =
                             Message(chat.session_id, "assistant",
                                     chat.direct.reply)
        /\ ~chat.graph.raised =>
               /\ chat.direct = NotInvoked
               /\ chat.reply = chat.graph.reply
        /\ Cardinality(AssistantRows(Added)) <= 1

\* the pipeline raised and the direct generation replied
C31_Witness ==
    /\ Answered
    /\ chat.use_graph
    /\ chat.graph.raised
    /\ chat.direct # NotInvoked
    /\ ~chat.direct.raised
    /\ chat.direct.reply # ""

\* ------------------------------------------------------------- C32
\* the provenance entries a call of provider p leaves: its name when the
\* method returned, its name with "(failed)" when it raised
CallEntries(p) ==
    {i \in DOMAIN last.sources_tried :
        last.sources_tried[i] \in {p, p \o "(failed)"}}

\* C32: within one invocation of search_recipes_with_fallback or
\* get_nutrition_with_fallback each provider is called at most once (a
\* provider that failed is not called again; the next provider is the only
\* retry), so the invocation returns after at most 2 provider calls.
C32_EachProviderOnce ==
    last.op # "none" =>
        /\ \A p \in Range(LastPriority) :
               /\ Cardinality(CallEntries(p)) <= 1
               /\ p \in Called <=> CallEntries(p) # {}
        /\ Cardinality(Called) <= 2
        /\ Called \subseteq Range(LastPriority)

\* an invocation whose first provider raised and whose second was called
C32_Witness ==
    /\ last.op # "none"
    /\ LastOutcome(LastPriority[1]).kind = "raised"
    /\ LastPriority[2] \in Called

\* ------------------------------------------------------------- C33
\* C33: under invocations that run side by side on the one health table, a
\* call in flight when another invocation trips the provider does not
\* modify the tripped provider's record: in every state a provider marked
\* unavailable has a failure count of 3 or more.
C33_TrippedStaysTripped ==
    \A p \in Providers :
        ~api_health[p].available => api_health[p].failures >= 3

\* ------------------------------------------------------------- C34
\* record i of the result is one of the static fallback table
FromFallbackTable(i) == last.recipes[i].source = "Fallback Recipe"

\* C34: on the records of every search result, _fallback_used is true
\* exactly when the records come from the static fallback table, and false
\* exactly when they come from an external provider.
C34_FallbackFlagTellsOrigin ==
    last.op = "search" =>
        \A i \in DOMAIN last.recipes :
            last.recipes[i].fallback_used <=> FromFallbackTable(i)

\* ------------------------------------------------------------- C35
\* C35: a request of /api/chat answered with an error status (session_id
\* or message missing, session unknown, LLM key missing, search key
\* missing with use_graph) leaves the stored messages of every session
\* unchanged.
C35_ErrorLeavesMessages ==
    (Answered /\ chat.status \in {400, 404}) => db = chat.pre

\* ------------------------------------------------------------- C36
\* the rows of a session that hold a message of the given role
RowsOf(session_id, role) ==
    {i \in 1..Len(db) : db[i].session_id = session_id /\ db[i].role = role}

\* the turn that has just been answered with a reply, in either endpoint
Replied ==
    \/ Answered /\ chat.status = 200
    \/ stream.pc = "done" /\ ~stream.raised

RepliedTurn ==
    IF stream.pc = "done"
    THEN [session_id |-> stream.session_id, user_msg |-> stream.user_msg,
          reply |-> stream.reply]
    ELSE [session_id |-> chat.session_id, user_msg |-> chat.user_msg,
          reply |-> chat.reply]

\* C36: in /api/chat and /api/chat/stream the user message of a turn is
\* stored before the reply is asked for and the assistant message once the
\* reply is there: after any sequence of sequential turns each session
\* holds at most as many assistant messages as user messages, and every
\* assistant message comes right after the user message of its own turn.
C36_UserThenAssistant ==
    /\ \A session_id \in Sessions :
           Cardinality(RowsOf(session_id, "assistant"))
               <= Cardinality(RowsOf(session_id, "user"))
    /\ \A i \in 1..Len(db) :
           db[i].role = "assistant" =>
               /\ i > 1
               /\ db[i - 1].role = "user"
               /\ db[i - 1].session_id = db[i].session_id
    /\ Replied =>
           /\ Len(db) >= 2
           /\ db[Len(db) - 1] = Message(RepliedTurn.session_id, "user",
                                        RepliedTurn.user_msg)
           /\ db[Len(db)] = Message(RepliedTurn.session_id, "assistant",
                                    RepliedTurn.reply)

\* a second turn of a session has been answered, after a turn of it that
\* got no reply
C36_Witness ==
    /\ Replied
    /\ Cardinality(RowsOf(RepliedTurn.session_id, "user")) > 
           Cardinality(RowsOf(RepliedTurn.session_id, "assistant"))

\* ------------------------------------------------------------- C37
\* C37: every stored message belongs to a chat session that exists:
\* neither endpoint stores a message, or asks for a reply, for a
\* session_id that /api/sessions never created.
C37_MessagesOfCreatedSessions ==
    /\ \A i \in 1..Len(db) : db[i].session_id \in chat_sessions
    /\ stream.pc = "done" => stream.session_id \in chat_sessions
    /\ (Answered /\ chat.status \in {200, 500}) =>
           chat.session_id \in chat_sessions

\* ------------------------------------------------------------- C39
\* the reply of the stream under way raised
Faulted == stream.pc = "done" /\ stream.raised

\* C39: when the reply of /api/chat/stream raises, the stream is one data
\* event that starts with "ERROR:" and no end event, no chunk of a reply
\* is delivered, and no assistant message is stored for the turn; the
\* user message of the turn stays stored.
C39_ErrorEventOnly ==
    Faulted =>
        /\ Len(Events) = 1
        /\ Events[1].type = "message"
        /\ SubSeq(Events[1].data, 1, 6) = "ERROR:"
        /\ Len(db) >= 1
        /\ db[Len(db)] = Message(stream.session_id, "user", stream.user_msg)

\* a fault whose message runs over two lines
C39_Witness ==
    /\ Faulted
    /\ Len(stream.yielded) = 1
    /\ \E j \in 1..(Len(stream.yielded[1]) - 2) :
           SubSeq(stream.yielded[1], j, j) = "\n"

\* ------------------------------------------------------------- the search cache
\* what tc.search answers with: a fault, or a list of hits (two hits may
\* name the same URL)
ProviderAnswers ==
    {[raised |-> TRUE, hits |-> <<>>]} \cup
    {[raised |-> FALSE, hits |-> h] :
        h \in {<<>>, <<Hit(1)>>, <<Hit(1), Hit(2)>>, <<Hit(2), Hit(2)>>}}

\* a row of recipe_cache
CacheRow(query, it) ==
    [query |-> query, title |-> it.title, url |-> it.sourceUrl,
     summary |-> it.summary]

\* the item a cached row is returned as
CachedItem(r) == [title |-> r.title, sourceUrl |-> r.url, summary |-> r.summary]

\* the rows of the query, order_by(created_at.desc()).limit(20), as items;
\* each row is committed on its own, so a later row has a later created_at
Cached(table, query) ==
    LET rows == PySlice(Reverse(SelectSeq(table, LAMBDA r : r.query = query)),
                        20)
    IN  [i \in 1..Len(rows) |-> CachedItem(rows[i])]

\* `for it in items`: each item is added and committed; a row that breaks
\* the unique constraint on (query, url) is rolled back
RECURSIVE Saved(_, _, _, _)
Saved(table, query, items, i) ==
    IF i > Len(items) THEN table
    ELSE LET rec == CacheRow(query, items[i])
             clash == \E k \in 1..Len(table) :
                          table[k].query = query /\ table[k].url = rec.url
         IN  Saved(IF clash THEN table ELSE Append(table, rec), query, items,
                   i + 1)

InitCache ==
    /\ InitServer
    /\ pure = NoCall
    /\ analysis = NoAnalysis
    /\ turn = NoTurn
    /\ db = <<>>
    /\ stream = NoStream
    /\ workers = NoWorkers
    /\ chat_sessions = {}
    /\ chat = NoChat
    /\ recipe_cache = <<>>
    /\ tavily = NoLookup

\* one call of search_recipes_tavily(query, dietary_context), to its return
SearchTavily ==
    \E text \in SearchTexts, dietary_context \in DietaryContexts,
       configured \in BOOLEAN, answer \in ProviderAnswers :
        LET query == EffectiveQuery(text, dietary_context)
            cached == Cached(recipe_cache, query)
            call == [pc |-> "returned", query |-> query,
                     original |-> tavily.original]
        IN  /\ tavily.pc = "idle"
            /\ Len(recipe_cache) + Len(answer.hits) <= MaxCacheRows
            /\ IF ~configured
               THEN /\ tavily' = call @@ [kind |-> "no_client",
                                          items |-> <<>>]
                    /\ UNCHANGED recipe_cache
               ELSE IF cached # <<>>
               THEN /\ tavily' = call @@ [kind |-> "cached", items |-> cached]
                    /\ UNCHANGED recipe_cache
               ELSE IF answer.raised
               THEN /\ tavily' = call @@ [kind |-> "raised", items |-> <<>>]
                    /\ UNCHANGED recipe_cache
               ELSE /\ tavily' =
                          [call EXCEPT !.original[query] = answer.hits]
                              @@ [kind |-> "searched", items |-> answer.hits]
                    /\ recipe_cache' = Saved(recipe_cache, query,
                                             answer.hits, 1)
            /\ UNCHANGED <<api_health, now, env, last, pure, analysis, turn,
                           db, stream, workers, chat_sessions, chat>>

\* the caller has the items
LookupDone ==
    /\ tavily.pc # "idle"
    /\ tavily' = [pc |-> "idle", original |-> tavily.original]
    /\ UNCHANGED <<api_health, now, env, last, pure, analysis, turn, db,
                   stream, workers, chat_sessions, chat, recipe_cache>>

NextCache == SearchTavily \/ LookupDone

SpecCache == InitCache /\ [][NextCache]_vars

\* ------------------------------------------------------------- C38
\* C38: once search_recipes_tavily has got a non-empty list from the
\* provider for an effective query and stored it, every later call with
\* that query makes no provider call and returns the same items in the
\* same order; an empty provider result is not cached, so the next call
\* asks the provider again.
C38_CacheReturnsOriginal ==
    /\ (tavily.pc = "returned" /\ tavily.kind = "cached") =>
           tavily.items = tavily.original[tavily.query]
    /\ (tavily.pc = "returned" /\ tavily.kind \in {"searched", "raised"}) =>
           \A k \in 1..Len(recipe_cache) :
               recipe_cache[k].query = tavily.query =>
                   tavily.kind = "searched" /\ tavily.items # <<>>
    /\ (tavily.pc = "returned" /\ tavily.kind = "searched"
            /\ tavily.items = <<>>) =>
           Cached(recipe_cache, tavily.query) = <<>>

====
